---- MODULE Spec2Model ----
(***************************************************************************)
(* Strict-mode JSON Schema normalizer with reversible enum-value encoding. *)
(*                                                                         *)
(* Models sanitizeEnumValue, makeSchemaStrict and restoreEnumValues        *)
(* (src/unnamed/part_000, lines 184-248) over an explicit JavaScript       *)
(* object store: objects and arrays live in a heap and are referred to by  *)
(* address, so that copying, sharing and mutation are visible.             *)
(*                                                                         *)
(* Strings (values and object keys alike) are sequences of UTF-16 code     *)
(* units, which is what the regular expressions of sanitizeEnumValue act   *)
(* on.                                                                     *)
(***************************************************************************)
EXTENDS Integers, Sequences, FiniteSets, TLC

VARIABLES
  pc,            \* position in the request/response cycle
  heap,          \* the object store: a sequence of cells, addressed by index
  schema,        \* the schema handed to makeSchemaStrict (a JS value)
  enumMapping,   \* the Map sanitized -> original threaded through the cycle
  strictSchema,  \* what makeSchemaStrict returned
  original,      \* the enum string the response stands for
  output,        \* the parsed model output handed to restoreEnumValues
  restored,      \* what restoreEnumValues returned
  value,         \* the string handed to sanitizeEnumValue
  sanitized,     \* what sanitizeEnumValue returned
  runs,          \* further calls of makeSchemaStrict on the same schema
  cycles,        \* concurrent request/response cycles, one record each
  maps,          \* the Map instances of the concurrent cycles and the agent
  agent          \* the agent sequence: its configuration and its steps

vars == <<pc, heap, schema, enumMapping, strictSchema, original, output,
          restored, value, sanitized, runs, cycles, maps, agent>>

\* The variables that only the specifications SpecRuns, SpecCycles and
\* SpecAgent use.
extra == <<runs, cycles, maps, agent>>

(***************************************************************************)
(* String literals of the source, as UTF-16 code units.                    *)
(***************************************************************************)
Lit ==
  (  "$schema" :> <<36, 115, 99, 104, 101, 109, 97>>
  @@ "default" :> <<100, 101, 102, 97, 117, 108, 116>>
  @@ "format" :> <<102, 111, 114, 109, 97, 116>>
  @@ "pattern" :> <<112, 97, 116, 116, 101, 114, 110>>
  @@ "minLength" :> <<109, 105, 110, 76, 101, 110, 103, 116, 104>>
  @@ "maxLength" :> <<109, 97, 120, 76, 101, 110, 103, 116, 104>>
  @@ "minimum" :> <<109, 105, 110, 105, 109, 117, 109>>
  @@ "maximum" :> <<109, 97, 120, 105, 109, 117, 109>>
  @@ "exclusiveMinimum" :> <<101, 120, 99, 108, 117, 115, 105, 118, 101, 77, 105, 110, 105, 109, 117, 109>>
  @@ "exclusiveMaximum" :> <<101, 120, 99, 108, 117, 115, 105, 118, 101, 77, 97, 120, 105, 109, 117, 109>>
  @@ "multipleOf" :> <<109, 117, 108, 116, 105, 112, 108, 101, 79, 102>>
  @@ "minItems" :> <<109, 105, 110, 73, 116, 101, 109, 115>>
  @@ "maxItems" :> <<109, 97, 120, 73, 116, 101, 109, 115>>
  @@ "uniqueItems" :> <<117, 110, 105, 113, 117, 101, 73, 116, 101, 109, 115>>
  @@ "minProperties" :> <<109, 105, 110, 80, 114, 111, 112, 101, 114, 116, 105, 101, 115>>
  @@ "maxProperties" :> <<109, 97, 120, 80, 114, 111, 112, 101, 114, 116, 105, 101, 115>>
  @@ "patternProperties" :> <<112, 97, 116, 116, 101, 114, 110, 80, 114, 111, 112, 101, 114, 116, 105, 101, 115>>
  @@ "not" :> <<110, 111, 116>>
  @@ "if" :> <<105, 102>>
  @@ "then" :> <<116, 104, 101, 110>>
  @@ "else" :> <<101, 108, 115, 101>>
  @@ "examples" :> <<101, 120, 97, 109, 112, 108, 101, 115>>
  @@ "const" :> <<99, 111, 110, 115, 116>>
  @@ "enum" :> <<101, 110, 117, 109>>
  @@ "type" :> <<116, 121, 112, 101>>
  @@ "object" :> <<111, 98, 106, 101, 99, 116>>
  @@ "array" :> <<97, 114, 114, 97, 121>>
  @@ "string" :> <<115, 116, 114, 105, 110, 103>>
  @@ "properties" :> <<112, 114, 111, 112, 101, 114, 116, 105, 101, 115>>
  @@ "additionalProperties" :> <<97, 100, 100, 105, 116, 105, 111, 110, 97, 108, 80, 114, 111, 112, 101, 114, 116, 105, 101, 115>>
  @@ "required" :> <<114, 101, 113, 117, 105, 114, 101, 100>>
  @@ "items" :> <<105, 116, 101, 109, 115>>
  @@ "anyOf" :> <<97, 110, 121, 79, 102>>
  @@ "allOf" :> <<97, 108, 108, 79, 102>>
  @@ "oneOf" :> <<111, 110, 101, 79, 102>>
  @@ "__proto__" :> <<95, 95, 112, 114, 111, 116, 111, 95, 95>>
  @@ "length" :> <<108, 101, 110, 103, 116, 104>>
  @@ "config" :> <<99, 111, 110, 102, 105, 103>>
  @@ "kwargs" :> <<107, 119, 97, 114, 103, 115>>
  @@ "tools" :> <<116, 111, 111, 108, 115>>
  @@ "invocation_params" :> <<105, 110, 118, 111, 99, 97, 116, 105, 111, 110, 95, 112, 97, 114, 97, 109, 115>>
  @@ "bound" :> <<98, 111, 117, 110, 100>>
  @@ "function" :> <<102, 117, 110, 99, 116, 105, 111, 110>>
  @@ "strict" :> <<115, 116, 114, 105, 99, 116>>
  @@ "parameters" :> <<112, 97, 114, 97, 109, 101, 116, 101, 114, 115>> )

(***************************************************************************)
(* JavaScript values.  A value is a tagged record; objects and arrays are  *)
(* references into the heap.                                               *)
(***************************************************************************)
Undefined == [t |-> "undefined", v |-> 0]
Null      == [t |-> "null", v |-> 0]
Bool(b)   == [t |-> "boolean", v |-> b]
Num(n)    == [t |-> "number", v |-> n]
Str(s)    == [t |-> "string", v |-> s]
Ref(a)    == [t |-> "ref", v |-> a]

\* Heap cells: an object is its own properties in property order, an array
\* its elements.
ObjCell(entries) == [t |-> "obj", v |-> entries]
\* An array cell: its elements, and the own properties it has besides
\* them (arr.strict = true), as <<key, value>> pairs.
ArrCell(elems)   == [t |-> "arr", v |-> elems, own |-> << >>]

\* typeof x === 'object' && x !== null
IsObject(x) == x.t = "ref"

\* typeof x === 'string'
IsString(x) == x.t = "string"

\* Array.isArray(x)
IsArray(h, x) == x.t = "ref" /\ h[x.v].t = "arr"

\* ToBoolean(x), as in `if (x)` and `a || b`
Truthy(x) ==
  CASE x.t = "undefined" -> FALSE
    [] x.t = "null"      -> FALSE
    [] x.t = "boolean"   -> x.v
    [] x.t = "number"    -> x.v # 0
    [] x.t = "string"    -> x.v # << >>
    [] OTHER             -> TRUE

\* The decimal string of a natural number: the key of an array index.
RECURSIVE IndexKey(_)
IndexKey(n) ==
  IF n < 10 THEN <<48 + n>> ELSE IndexKey(n \div 10) \o <<48 + (n % 10)>>

\* An integer-like key: the canonical decimal string of an integer from 0
\* to 2^32 - 2.  Such keys come first among the own properties of an
\* object, in ascending order.
IsIndexKey(k) ==
  /\ Len(k) \in 1..10
  /\ \A i \in 1..Len(k) : k[i] \in 48..57
  /\ Len(k) > 1 => k[1] # 48
  /\ Len(k) = 10 =>
       LET top == <<52, 50, 57, 52, 57, 54, 55, 50, 57, 52>>
       IN k = top \/ \E i \in 1..10 :
                       k[i] < top[i] /\ \A j \in 1..(i - 1) : k[j] = top[j]

\* a < b for integer-like keys a and b
IndexKeyLess(a, b) ==
  \/ Len(a) < Len(b)
  \/ /\ Len(a) = Len(b)
     /\ \E i \in 1..Len(a) : a[i] < b[i] /\ \A j \in 1..(i - 1) : a[j] = b[j]

\* The own properties of an object on which the pairs es were defined in
\* order: a key defined again keeps its place and takes the later value;
\* integer-like keys come first, ascending, the others in order of
\* definition.
OwnOrder(es) ==
  IF /\ \A i \in 1..Len(es) : ~IsIndexKey(es[i][1])
     /\ \A i, j \in 1..Len(es) : es[i][1] = es[j][1] => i = j
  THEN es
  ELSE
    LET first == SelectSeq([i \in 1..Len(es) |-> i],
                           LAMBDA i : \A j \in 1..(i - 1) : es[j][1] # es[i][1])
        LastOf(i) == CHOOSE j \in i..Len(es) :
                       /\ es[j][1] = es[i][1]
                       /\ \A l \in (j + 1)..Len(es) : es[l][1] # es[i][1]
        once == [n \in 1..Len(first) |->
                   <<es[first[n]][1], es[LastOf(first[n])][2]>>]
    IN SortSeq(SelectSeq(once, LAMBDA e : IsIndexKey(e[1])),
               LAMBDA x, y : IndexKeyLess(x[1], y[1]))
       \o SelectSeq(once, LAMBDA e : ~IsIndexKey(e[1]))

\* Own enumerable string-keyed properties of x, in property order, as
\* <<key, value>> pairs: what Object.keys, Object.entries and object spread
\* enumerate.
Entries(h, x) ==
  CASE x.t = "ref" /\ h[x.v].t = "obj" -> h[x.v].v
    [] x.t = "ref" /\ h[x.v].t = "arr" ->
         [i \in 1..Len(h[x.v].v) |-> <<IndexKey(i - 1), h[x.v].v[i]>>]
         \o h[x.v].own
    [] x.t = "string" ->
         [i \in 1..Len(x.v) |-> <<IndexKey(i - 1), Str(<<x.v[i]>>)>>]
    [] OTHER -> << >>

\* The indices of array x as keys: what forEach visits, the elements and
\* none of the other own properties of the array.
Indices(h, x) == [i \in 1..Len(h[x.v].v) |-> IndexKey(i - 1)]

\* Object.keys(x)
Keys(h, x) == [i \in 1..Len(Entries(h, x)) |-> Entries(h, x)[i][1]]

\* Position of key k among entries es, 0 when absent.
KeyPos(es, k) ==
  IF \E i \in 1..Len(es) : es[i][1] = k
  THEN CHOOSE i \in 1..Len(es) : es[i][1] = k
  ELSE 0

\* `k in x` for a plain object or array x (nothing on Object.prototype or
\* Array.prototype is named by a key this program tests with `in`).
HasKey(h, x, k) == KeyPos(Entries(h, x), k) # 0

\* x[k] / x.k for a non-nullish x: an own property, the length of an array
\* or string, undefined otherwise.
Get(h, x, k) ==
  LET es == Entries(h, x)
      i  == KeyPos(es, k)
  IN IF i # 0 THEN es[i][2]
     ELSE IF k = Lit.length /\ (IsArray(h, x) \/ IsString(x))
          THEN Num(Len(es))
          ELSE Undefined

\* Allocation of a fresh object or array: its address is the new length.
Alloc(h, cell) == Append(h, cell)

\* The number an integer-like key of at most 4 digits denotes; keys of an
\* array reach no further here.
RECURSIVE IndexOf(_)
IndexOf(k) ==
  IF k = << >> THEN 0
  ELSE 10 * IndexOf(SubSeq(k, 1, Len(k) - 1)) + (k[Len(k)] - 48)

\* x[k] = v at address a.  On an object a key already present keeps its
\* place and a new key takes its place in property order.  On an array an
\* index up to the length sets or appends an element (an index beyond the
\* length would leave holes: the program makes no such assignment) and any
\* other key is an own property besides the elements.  Assigning to
\* "__proto__" runs the Object.prototype setter: it creates no own
\* property.
SetProp(h, a, k, v) ==
  LET es == IF h[a].t = "arr" THEN h[a].own ELSE h[a].v
      i  == KeyPos(es, k)
  IN IF k = Lit["__proto__"] /\ i = 0 THEN h
     ELSE IF h[a].t = "arr" /\ IsIndexKey(k) /\ Len(k) <= 4
             /\ IndexOf(k) <= Len(h[a].v)
     THEN IF IndexOf(k) < Len(h[a].v)
          THEN [h EXCEPT ![a].v[IndexOf(k) + 1] = v]
          ELSE [h EXCEPT ![a].v = Append(@, v)]
     ELSE IF h[a].t = "arr"
     THEN IF i # 0 THEN [h EXCEPT ![a].own[i] = <<k, v>>]
          ELSE [h EXCEPT ![a].own = Append(es, <<k, v>>)]
     ELSE IF i # 0 THEN [h EXCEPT ![a].v[i] = <<k, v>>]
     ELSE [h EXCEPT ![a].v = OwnOrder(Append(es, <<k, v>>))]

\* delete x[k] at address a, for a key k that is no index of an array.
DeleteProp(h, a, k) ==
  LET es == IF h[a].t = "arr" THEN h[a].own ELSE h[a].v
      i  == KeyPos(es, k)
      to == SubSeq(es, 1, i - 1) \o SubSeq(es, i + 1, Len(es))
  IN IF i = 0 THEN h
     ELSE IF h[a].t = "arr" THEN [h EXCEPT ![a].own = to]
     ELSE [h EXCEPT ![a].v = to]

(***************************************************************************)
(* sanitizeEnumValue                                                       *)
(***************************************************************************)
\* s.replace(/[class]/g, by): scan left to right, every code unit of the
\* class is a match and is replaced by `by`.
RECURSIVE ReplaceAll(_, _, _)
ReplaceAll(s, class, by) ==
  IF s = << >> THEN << >>
  ELSE (IF Head(s) \in class THEN by ELSE <<Head(s)>>)
       \o ReplaceAll(Tail(s), class, by)

\* /[\n\r\t]/
NlCrTab == {10, 13, 9}

\* /[\u0000-\u001F]/
Control == 0..31

\* ' '
Space == <<32>>

\* A faulty variant of sanitizeEnumValue, used against C27: a tab becomes
\* a space, then a line feed becomes a tab, so that a sanitized string can
\* need sanitizing.
sanitizeEnumValue_TabForNewline(s) ==
  ReplaceAll(ReplaceAll(s, {9}, Space), {10}, <<9>>)

\* Faulty variants of sanitizeEnumValue, used against C4, C5 and C6:
\* the second replace left out; the escaping of part_001's
\* sanitizeStrictLiteral in place of the replacement by spaces; \n, \r, \t
\* removed instead of replaced.
sanitizeEnumValue_FirstPassOnly(s) == ReplaceAll(s, NlCrTab, Space)
sanitizeEnumValue_Escape(s) ==
  ReplaceAll(ReplaceAll(ReplaceAll(s, {92}, <<92, 92>>), NlCrTab, <<92, 110>>),
             Control, Space)
sanitizeEnumValue_Strip(s) ==
  ReplaceAll(ReplaceAll(s, NlCrTab, << >>), Control, Space)

sanitizeEnumValue(s) ==
  ReplaceAll(ReplaceAll(s, NlCrTab, Space), Control, Space)

(***************************************************************************)
(* The enum mapping: a Map<string, string>, or undefined when the caller   *)
(* passes none.                                                            *)
(***************************************************************************)
NoMapping   == [t |-> "undefined", v |-> << >>]
NewMap      == [t |-> "map", v |-> << >>]
MapOf(f)    == [t |-> "map", v |-> f]

\* `enumMapping` used as a condition
HasMapping(m) == m.t = "map"

\* A faulty variant of set, used against C28: the new entry replaces all
\* the others.
MapSet_OnlyLast(m, k, x) == MapOf([y \in {k} |-> x])

\* A faulty variant of set, used against C17: it keeps the value a key
\* already has.
MapSet_FirstWins(m, k, x) ==
  IF k \in DOMAIN m.v THEN m
  ELSE MapOf([y \in (DOMAIN m.v) \cup {k} |-> IF y = k THEN x ELSE m.v[y]])

\* enumMapping.set(k, x)
MapSet(m, k, x) ==
  MapOf([y \in (DOMAIN m.v) \cup {k} |-> IF y = k THEN x ELSE m.v[y]])

\* enumMapping.has(k)
MapHas(m, k) == k \in DOMAIN m.v

\* enumMapping.get(k)
MapGet(m, k) == IF MapHas(m, k) THEN Str(m.v[k]) ELSE Undefined

(***************************************************************************)
(* makeSchemaStrict(schema, enumMapping)                                   *)
(*                                                                         *)
(* Every step takes the heap h and returns the heap it leaves.  A call     *)
(* returns [h, ret, m, ok]: the heap, the returned value, the mapping and  *)
(* whether it returned (ok) or threw a TypeError.                          *)
(***************************************************************************)
\* A faulty variant of the list, used against C3: 'examples' left out.
unsupported_NoExamples ==
  << Lit["$schema"], Lit.default, Lit.format, Lit.pattern, Lit.minLength,
     Lit.maxLength, Lit.minimum, Lit.maximum, Lit.exclusiveMinimum,
     Lit.exclusiveMaximum, Lit.multipleOf, Lit.minItems, Lit.maxItems,
     Lit.uniqueItems, Lit.minProperties, Lit.maxProperties,
     Lit.patternProperties, Lit.not, Lit.if, Lit.then, Lit.else >>

unsupported ==
  << Lit["$schema"], Lit.default, Lit.format, Lit.pattern, Lit.minLength,
     Lit.maxLength, Lit.minimum, Lit.maximum, Lit.exclusiveMinimum,
     Lit.exclusiveMaximum, Lit.multipleOf, Lit.minItems, Lit.maxItems,
     Lit.uniqueItems, Lit.minProperties, Lit.maxProperties,
     Lit.patternProperties, Lit.not, Lit.if, Lit.then, Lit.else,
     Lit.examples >>

Returned(h, x, m) == [h |-> h, ret |-> x, m |-> m, ok |-> TRUE]
Thrown(h, m)      == [h |-> h, ret |-> Undefined, m |-> m, ok |-> FALSE]

\* A faulty variant of the copy, used against C8: newSchema = schema.
ShallowCopy_Alias(h, sch) ==
  IF h[sch.v].t = "obj" THEN [h |-> h, a |-> sch.v]
  ELSE [h |-> Alloc(h, ObjCell(Entries(h, sch))), a |-> Len(h) + 1]

\* const newSchema = { ...schema }: a fresh object holding the own
\* properties of schema; the values are shared, not copied.
\* Returns [h, a]: the heap and the address of newSchema.
ShallowCopy(h, sch) ==
  [h |-> Alloc(h, ObjCell(Entries(h, sch))), a |-> Len(h) + 1]

\* for (const k of unsupported) delete newSchema[k]: the properties that
\* remain are those whose key is not in the list, in their order.
IsUnsupported(k) == \E i \in 1..Len(unsupported) : unsupported[i] = k
KeepsKey(e) == ~IsUnsupported(e[1])
DeleteUnsupported(h, a) == [h EXCEPT ![a].v = SelectSeq(@, KeepsKey)]

\* A faulty variant of the const step, used against C12: an enum the node
\* already has is kept.
ConstToEnum_KeepsEnum(h, a) ==
  IF HasKey(h, Ref(a), Lit.const)
  THEN IF HasKey(h, Ref(a), Lit.enum) THEN DeleteProp(h, a, Lit.const)
       ELSE LET h1 == Alloc(h, ArrCell(<<Get(h, Ref(a), Lit.const)>>))
                h2 == SetProp(h1, a, Lit.enum, Ref(Len(h1)))
            IN DeleteProp(h2, a, Lit.const)
  ELSE h

\* if ('const' in newSchema) { newSchema.enum = [newSchema.const];
\*                             delete newSchema.const; }
ConstToEnum(h, a) ==
  IF HasKey(h, Ref(a), Lit.const)
  THEN LET h1 == Alloc(h, ArrCell(<<Get(h, Ref(a), Lit.const)>>))
           h2 == SetProp(h1, a, Lit.enum, Ref(Len(h1)))
       IN DeleteProp(h2, a, Lit.const)
  ELSE h

\* Faulty variants of the callback, used against C7 and C9: the
\* arguments of enumMapping.set exchanged; a member that is no string
\* turned into a string.
SanitizeMember_SwappedSet(x, m) ==
  IF ~IsString(x) THEN [ret |-> x, m |-> m]
  ELSE LET s == sanitizeEnumValue(x.v)
       IN [ret |-> Str(s),
           m   |-> IF s # x.v /\ HasMapping(m) THEN MapSet(m, x.v, s) ELSE m]
SanitizeMember_Stringify(x, m) ==
  LET y == IF IsString(x) THEN x ELSE Str(<<110>>)
      s == sanitizeEnumValue(y.v)
  IN [ret |-> Str(s),
      m   |-> IF s # y.v /\ HasMapping(m) THEN MapSet(m, s, y.v) ELSE m]

\* A faulty variant of the callback, used against C16: without a mapping
\* the member is not sanitized.
SanitizeMember_OnlyWithMapping(x, m) ==
  IF ~IsString(x) \/ ~HasMapping(m) THEN [ret |-> x, m |-> m]
  ELSE LET s == sanitizeEnumValue(x.v)
       IN [ret |-> Str(s),
           m   |-> IF s # x.v THEN MapSet(m, s, x.v) ELSE m]

\* A faulty variant of the callback, used against C26: every string
\* member is recorded, changed or not.
SanitizeMember_RecordsAll(x, m) ==
  IF ~IsString(x) THEN [ret |-> x, m |-> m]
  ELSE LET s == sanitizeEnumValue(x.v)
       IN [ret |-> Str(s),
           m   |-> IF HasMapping(m) THEN MapSet(m, s, x.v) ELSE m]

\* The callback of newSchema.enum.map: returns [ret, m].
SanitizeMember(x, m) ==
  IF ~IsString(x) THEN [ret |-> x, m |-> m]
  ELSE LET s == sanitizeEnumValue(x.v)
       IN [ret |-> Str(s),
           m   |-> IF s # x.v /\ HasMapping(m) THEN MapSet(m, s, x.v) ELSE m]

\* newSchema.enum.map(callback), members in order: returns [ret, m].
RECURSIVE SanitizeMembers(_, _)
SanitizeMembers(xs, m) ==
  IF xs = << >> THEN [ret |-> << >>, m |-> m]
  ELSE LET r1 == SanitizeMember(Head(xs), m)
           r2 == SanitizeMembers(Tail(xs), r1.m)
       IN [ret |-> <<r1.ret>> \o r2.ret, m |-> r2.m]

\* A faulty variant of the enum step, used against C1: the mapping is
\* not recorded.
SanitizeEnum_DropsMapping(h, a, m) ==
  LET e == Get(h, Ref(a), Lit.enum)
  IN IF IsArray(h, e)
     THEN LET r  == SanitizeMembers(h[e.v].v, m)
              h1 == Alloc(h, ArrCell(r.ret))
          IN [h |-> SetProp(h1, a, Lit.enum, Ref(Len(h1))), m |-> m]
     ELSE [h |-> h, m |-> m]

\* A faulty variant of the enum step, used against C23: it is skipped on
\* a node that holds properties, items or anyOf.
SanitizeEnum_UnshapedOnly(h, a, m) ==
  LET e == Get(h, Ref(a), Lit.enum)
  IN IF /\ IsArray(h, e)
        /\ ~Truthy(Get(h, Ref(a), Lit.properties))
        /\ ~Truthy(Get(h, Ref(a), Lit.items))
        /\ ~Truthy(Get(h, Ref(a), Lit.anyOf))
     THEN LET r  == SanitizeMembers(h[e.v].v, m)
              h1 == Alloc(h, ArrCell(r.ret))
          IN [h |-> SetProp(h1, a, Lit.enum, Ref(Len(h1))), m |-> r.m]
     ELSE [h |-> h, m |-> m]

\* if (Array.isArray(newSchema.enum)) newSchema.enum = newSchema.enum.map(..)
\* returns [h, m].
SanitizeEnum(h, a, m) ==
  LET e == Get(h, Ref(a), Lit.enum)
  IN IF IsArray(h, e)
     THEN LET r  == SanitizeMembers(h[e.v].v, m)
              h1 == Alloc(h, ArrCell(r.ret))
          IN [h |-> SetProp(h1, a, Lit.enum, Ref(Len(h1))), m |-> r.m]
     ELSE [h |-> h, m |-> m]

\* schema.type === 'object' || schema.properties
IsObjectLike(h, sch) ==
  Get(h, sch, Lit.type) = Str(Lit.object) \/ Truthy(Get(h, sch, Lit.properties))

\* schema.type === 'array' || schema.items
IsArrayLike(h, sch) ==
  Get(h, sch, Lit.type) = Str(Lit.array) \/ Truthy(Get(h, sch, Lit.items))

RECURSIVE makeSchemaStrict(_, _, _)

\* for (const key of newSchema.required)
\*   newProps[key] = makeSchemaStrict(schema.properties[key], enumMapping);
RECURSIVE StrictProperties(_, _, _, _, _)
StrictProperties(h, props, keys, np, m) ==
  IF keys = << >> THEN Returned(h, Ref(np), m)
  ELSE LET r == makeSchemaStrict(h, Get(h, props, Head(keys)), m)
       IN IF ~r.ok THEN r
          ELSE StrictProperties(SetProp(r.h, np, Head(keys), r.ret),
                                props, Tail(keys), np, r.m)

\* A faulty variant of the object branch, used against C2: a required
\* list the node already has is kept.
ObjectBranch_KeepRequired(h, sch, a, m) ==
  LET h1 == SetProp(h, a, Lit.additionalProperties, Bool(FALSE))
      props == Get(h, sch, Lit.properties)
  IN IF Truthy(props)
     THEN LET keys == Keys(h1, props)
              h2 == Alloc(h1, ArrCell([i \in 1..Len(keys) |-> Str(keys[i])]))
              h3 == IF HasKey(h2, Ref(a), Lit.required) THEN h2
                    ELSE SetProp(h2, a, Lit.required, Ref(Len(h2)))
              h4 == Alloc(h3, ObjCell(<< >>))
              r  == StrictProperties(h4, props, keys, Len(h4), m)
          IN IF ~r.ok THEN r
             ELSE Returned(SetProp(r.h, a, Lit.properties, r.ret), Ref(a), r.m)
     ELSE Returned(h1, Ref(a), m)

\* The object branch: additionalProperties, required, properties.
ObjectBranch(h, sch, a, m) ==
  LET h1 == SetProp(h, a, Lit.additionalProperties, Bool(FALSE))
      props == Get(h, sch, Lit.properties)
  IN IF Truthy(props)
     THEN LET keys == Keys(h1, props)
              h2 == Alloc(h1, ArrCell([i \in 1..Len(keys) |-> Str(keys[i])]))
              h3 == SetProp(h2, a, Lit.required, Ref(Len(h2)))
              h4 == Alloc(h3, ObjCell(<< >>))
              r  == StrictProperties(h4, props, keys, Len(h4), m)
          IN IF ~r.ok THEN r
             ELSE Returned(SetProp(r.h, a, Lit.properties, r.ret), Ref(a), r.m)
     ELSE Returned(h1, Ref(a), m)

\* The array branch: if (schema.items) newSchema.items = makeSchemaStrict(..)
ArrayBranch(h, sch, a, m) ==
  LET items == Get(h, sch, Lit.items)
  IN IF Truthy(items)
     THEN LET r == makeSchemaStrict(h, items, m)
          IN IF ~r.ok THEN r
             ELSE Returned(SetProp(r.h, a, Lit.items, r.ret), Ref(a), r.m)
     ELSE Returned(h, Ref(a), m)

\* list.map((s) => makeSchemaStrict(s, enumMapping)) over the elements xs:
\* returns [h, ret (the new elements), m, ok].
RECURSIVE StrictMembers(_, _, _)
StrictMembers(h, xs, m) ==
  IF xs = << >> THEN Returned(h, << >>, m)
  ELSE LET r1 == makeSchemaStrict(h, Head(xs), m)
       IN IF ~r1.ok THEN r1
          ELSE LET r2 == StrictMembers(r1.h, Tail(xs), r1.m)
               IN IF ~r2.ok THEN r2
                  ELSE Returned(r2.h, <<r1.ret>> \o r2.ret, r2.m)

\* A faulty union branch, used against C20: the list stays as the spread
\* copied it, no member is strictified.
UnionBranch_KeepsList(h, sch, a, key, m) ==
  IF ~IsArray(h, Get(h, sch, key)) THEN Thrown(h, m) ELSE Returned(h, Ref(a), m)

\* A union branch: newSchema[key] = schema[key].map(...).  A truthy value
\* that is no array has no map method: the call throws a TypeError.
UnionBranch(h, sch, a, key, m) ==
  LET list == Get(h, sch, key)
  IN IF ~IsArray(h, list) THEN Thrown(h, m)
     ELSE LET r == StrictMembers(h, h[list.v].v, m)
          IN IF ~r.ok THEN r
             ELSE LET h1 == Alloc(r.h, ArrCell(r.ret))
                  IN Returned(SetProp(h1, a, key, Ref(Len(h1))), Ref(a), r.m)

\* A faulty chain, used against C21: the object branch does not exclude
\* the array branch and the anyOf branch.
ShapeBranch_Independent(h, sch, a, m) ==
  LET r1 == IF IsObjectLike(h, sch) THEN ObjectBranch(h, sch, a, m)
            ELSE Returned(h, Ref(a), m)
  IN IF ~r1.ok THEN r1
     ELSE LET r2 == IF IsArrayLike(r1.h, sch) THEN ArrayBranch(r1.h, sch, a, r1.m)
                    ELSE r1
          IN IF ~r2.ok THEN r2
             ELSE IF Truthy(Get(r2.h, sch, Lit.anyOf))
             THEN UnionBranch(r2.h, sch, a, Lit.anyOf, r2.m)
             ELSE IF Truthy(Get(r2.h, sch, Lit.allOf))
             THEN UnionBranch(r2.h, sch, a, Lit.allOf, r2.m)
             ELSE IF Truthy(Get(r2.h, sch, Lit.oneOf))
             THEN UnionBranch(r2.h, sch, a, Lit.oneOf, r2.m)
             ELSE r2

\* The if / else if chain on the shape of the input node.
ShapeBranch(h, sch, a, m) ==
  IF IsObjectLike(h, sch) THEN ObjectBranch(h, sch, a, m)
  ELSE IF IsArrayLike(h, sch) THEN ArrayBranch(h, sch, a, m)
  ELSE IF Truthy(Get(h, sch, Lit.anyOf)) THEN UnionBranch(h, sch, a, Lit.anyOf, m)
  ELSE IF Truthy(Get(h, sch, Lit.allOf)) THEN UnionBranch(h, sch, a, Lit.allOf, m)
  ELSE IF Truthy(Get(h, sch, Lit.oneOf)) THEN UnionBranch(h, sch, a, Lit.oneOf, m)
  ELSE Returned(h, Ref(a), m)

makeSchemaStrict(h, sch, m) ==
  IF ~IsObject(sch) THEN Returned(h, sch, m)
  ELSE LET c  == ShallowCopy(h, sch)
           a  == c.a
           h2 == DeleteUnsupported(c.h, a)
           h3 == ConstToEnum(h2, a)
           e  == SanitizeEnum(h3, a, m)
       IN ShapeBranch(e.h, sch, a, e.m)

(***************************************************************************)
(* restoreEnumValues(output, enumMapping): returns [h, ret].               *)
(***************************************************************************)
\* enumMapping.get(output) ?? output
RestoreString(x, m) ==
  LET g == MapGet(m, x.v)
  IN IF g.t \in {"undefined", "null"} THEN x ELSE g

RECURSIVE restoreEnumValues(_, _, _)

\* output.map((item) => restoreEnumValues(item, enumMapping)):
\* returns [h, ret (the new elements)].
RECURSIVE RestoreItems(_, _, _)
RestoreItems(h, xs, m) ==
  IF xs = << >> THEN [h |-> h, ret |-> << >>]
  ELSE LET r1 == restoreEnumValues(h, Head(xs), m)
           r2 == RestoreItems(r1.h, Tail(xs), m)
       IN [ret |-> <<r1.ret>> \o r2.ret, h |-> r2.h]

\* for (const [key, value] of Object.entries(output))
\*   result[key] = restoreEnumValues(value, enumMapping);
RECURSIVE RestoreEntries(_, _, _, _)
RestoreEntries(h, es, res, m) ==
  IF es = << >> THEN [h |-> h, ret |-> Ref(res)]
  ELSE LET r == restoreEnumValues(h, Head(es)[2], m)
       IN RestoreEntries(SetProp(r.h, res, Head(es)[1], r.ret), Tail(es), res, m)

\* A faulty variant of the Restorer, used against C11: the entries of an
\* object are restored in place, into the object that was handed in.
restoreEnumValues_InPlace(h, out, m) ==
  IF IsString(out) THEN [h |-> h, ret |-> RestoreString(out, m)]
  ELSE IF IsArray(h, out)
  THEN LET r  == RestoreItems(h, h[out.v].v, m)
           h1 == Alloc(r.h, ArrCell(r.ret))
       IN [h |-> h1, ret |-> Ref(Len(h1))]
  ELSE IF IsObject(out)
  THEN RestoreEntries(h, Entries(h, out), out.v, m)
  ELSE [h |-> h, ret |-> out]

restoreEnumValues(h, out, m) ==
  IF IsString(out) THEN [h |-> h, ret |-> RestoreString(out, m)]
  ELSE IF IsArray(h, out)
  THEN LET r  == RestoreItems(h, h[out.v].v, m)
           h1 == Alloc(r.h, ArrCell(r.ret))
       IN [h |-> h1, ret |-> Ref(Len(h1))]
  ELSE IF IsObject(out)
  THEN LET h1 == Alloc(h, ObjCell(<< >>))
       IN RestoreEntries(h1, Entries(h1, out), Len(h1), m)
  ELSE [h |-> h, ret |-> out]

(***************************************************************************)
(* Trees: JSON documents as nested values, the members of an object in   *)
(* the order the text has them.  Load is JSON.parse of the document: a key *)
(* written twice keeps its first place and its last value, integer-like    *)
(* keys come first, and "__proto__" is an own property like any other (in  *)
(* an object literal it would set the prototype instead).  Tree reads a    *)
(* value back as a tree.                                                   *)
(***************************************************************************)
TObj(entries) == [t |-> "obj", v |-> entries]
TArr(elems)   == [t |-> "arr", v |-> elems]

RECURSIVE Load(_, _)
RECURSIVE LoadAll(_, _)
\* Loads the trees ts in order: returns [h, ret (their values)].
LoadAll(h, ts) ==
  IF Len(ts) = 0 THEN [h |-> h, ret |-> << >>]
  ELSE IF Len(ts) = 1
  THEN LET r == Load(h, ts[1]) IN [h |-> r.h, ret |-> <<r.ret>>]
  ELSE LET k  == Len(ts) \div 2
           r1 == LoadAll(h, SubSeq(ts, 1, k))
           r2 == LoadAll(r1.h, SubSeq(ts, k + 1, Len(ts)))
       IN [ret |-> r1.ret \o r2.ret, h |-> r2.h]

Load(h, tr) ==
  IF tr.t = "obj"
  THEN LET r  == LoadAll(h, [i \in 1..Len(tr.v) |-> tr.v[i][2]])
           h1 == Alloc(r.h, ObjCell(OwnOrder([i \in 1..Len(tr.v) |->
                                               <<tr.v[i][1], r.ret[i]>>])))
       IN [h |-> h1, ret |-> Ref(Len(h1))]
  ELSE IF tr.t = "arr"
  THEN LET r  == LoadAll(h, tr.v)
           h1 == Alloc(r.h, ArrCell(r.ret))
       IN [h |-> h1, ret |-> Ref(Len(h1))]
  ELSE [h |-> h, ret |-> tr]

RECURSIVE Tree(_, _)
Tree(h, x) ==
  IF x.t # "ref" THEN x
  ELSE IF h[x.v].t = "arr"
  THEN IF h[x.v].own = << >>
       THEN TArr([i \in 1..Len(h[x.v].v) |-> Tree(h, h[x.v].v[i])])
       ELSE [t |-> "arr",
             v |-> [i \in 1..Len(h[x.v].v) |-> Tree(h, h[x.v].v[i])],
             own |-> [i \in 1..Len(h[x.v].own) |->
                        <<h[x.v].own[i][1], Tree(h, h[x.v].own[i][2])>>]]
  ELSE TObj([i \in 1..Len(h[x.v].v) |->
               <<h[x.v].v[i][1], Tree(h, h[x.v].v[i][2])>>])

(***************************************************************************)
(* The schemas of the specification Spec.                                  *)
(***************************************************************************)
\* Longest enum array of a schema.
MaxEnumLen == 2

\* Deepest nesting of the composed schemas.
MaxDepth == 2

\* Enum members: "\n", "\t", " ", "a", and a number, a boolean and null.
MemberStrings == {<<10>>, <<9>>, <<32>>, <<97>>}
Members == {Str(s) : s \in MemberStrings} \cup {Num(1), Bool(TRUE), Null}

RECURSIVE SeqsUpTo(_, _)
SeqsUpTo(S, n) ==
  IF n = 0 THEN {<< >>}
  ELSE LET shorter == SeqsUpTo(S, n - 1)
       IN shorter \cup {Append(q, x) : q \in shorter, x \in S}

TString == TObj(<< <<Lit.type, Str(Lit.string)>> >>)

\* { type: 'string', enum: [...] }
TEnum(ms) == TObj(<< <<Lit.type, Str(Lit.string)>>, <<Lit.enum, TArr(ms)>> >>)

\* { type: 'string', const: c }
TConst(c) == TObj(<< <<Lit.type, Str(Lit.string)>>, <<Lit.const, c>> >>)

\* { enum: [...], const: c }
TConstEnum(c, ms) == TObj(<< <<Lit.enum, TArr(ms)>>, <<Lit.const, c>> >>)

\* The 22 keywords of JSON Schema that the strict dialect does not accept,
\* as the documentation of the Strictifier lists them.
ListedKeywords ==
  << Lit["$schema"], Lit["default"], Lit["format"], Lit["pattern"],
     Lit["minLength"], Lit["maxLength"], Lit["minimum"], Lit["maximum"],
     Lit["exclusiveMinimum"], Lit["exclusiveMaximum"], Lit["multipleOf"],
     Lit["minItems"], Lit["maxItems"], Lit["uniqueItems"],
     Lit["minProperties"], Lit["maxProperties"], Lit["patternProperties"],
     Lit["not"], Lit["if"], Lit["then"], Lit["else"], Lit["examples"] >>

\* A string schema carrying every unsupported keyword.
TKeywords ==
  TObj(<< <<Lit.type, Str(Lit.string)>> >>
       \o [i \in 1..Len(ListedKeywords) |->
             <<ListedKeywords[i],
               IF ListedKeywords[i] \in {Lit.not, Lit.if, Lit.then, Lit.else}
               THEN TString
               ELSE IF ListedKeywords[i] = Lit.default THEN Str(<<10>>)
               ELSE Num(1)>>])

\* Leaves in full variety: every enum array up to MaxEnumLen, every const.
RichLeaves ==
  {TEnum(ms) : ms \in SeqsUpTo(Members, MaxEnumLen)}
  \cup {TConst(c) : c \in Members}
  \cup {TConstEnum(c, <<x>>) : c \in {Str(<<10>>), Num(1)}, x \in Members}

\* A few leaves for the inner positions of composed schemas.
SmallLeaves ==
  { TEnum(<<Str(<<9>>)>>),
    TConst(Str(<<97, 10>>)),
    TKeywords,
    TObj(<< <<Lit.type, Str(Lit.object)>> >>),
    TObj(<< <<Lit.enum, Str(<<10>>)>> >>),
    Bool(TRUE) }

PropA == <<97>>
PropB == <<98>>

\* The property name "1": an integer-like key.
Prop1 == <<49>>

\* Schemas with one sub-schema x whose every branch is the one the
\* Strictifier takes.
Composed(x) ==
  { TObj(<< <<Lit.type, Str(Lit.object)>>,
            <<Lit.properties, TObj(<< <<PropA, x>> >>)>> >>),
    TObj(<< <<Lit.type, Str(Lit.array)>>, <<Lit.items, x>> >>),
    TObj(<< <<Lit.anyOf, TArr(<<x>>)>> >>) }

\* Schemas over sub-schemas x and y in all the other shapes: more than one
\* shape on a node, property names that are keywords, sub-schemas under
\* keywords the Strictifier does not follow.
Shaped(x, y) ==
  { TObj(<< <<Lit.properties, TObj(<< <<PropB, x>>, <<PropA, y>> >>)>>,
            <<Lit.required, TArr(<<Str(PropA)>>)>>,
            <<Lit.additionalProperties, Bool(TRUE)>> >>),
    TObj(<< <<Lit.type, Str(Lit.object)>>, <<Lit.required, TArr(<<Str(PropA)>>)>> >>),
    TObj(<< <<Lit.type, Str(Lit.object)>>,
            <<Lit.properties, TObj(<< <<Lit.format, x>>, <<Lit["__proto__"], y>> >>)>> >>),
    TObj(<< <<Lit.type, Str(Lit.object)>>, <<Lit.properties, TObj(<< <<PropA, x>> >>)>>,
            <<Lit.items, y>> >>),
    TObj(<< <<Lit.items, x>>, <<Lit.maxItems, Num(1)>>, <<Lit.anyOf, TArr(<<y>>)>> >>),
    TObj(<< <<Lit.type, Str(Lit.array)>>, <<Lit.items, TArr(<<x, y>>)>> >>),
    TObj(<< <<Lit.anyOf, TArr(<<x, y>>)>>, <<Lit.allOf, TArr(<<y>>)>> >>),
    TObj(<< <<Lit.allOf, TArr(<<x, y>>)>>, <<Lit.oneOf, TArr(<<y>>)>> >>),
    TObj(<< <<Lit.oneOf, TArr(<<y, x>>)>>, <<Lit.pattern, x>> >>),
    TObj(<< <<Lit.type, Str(Lit.string)>>, <<Lit.not, x>>, <<Lit.additionalProperties, y>> >>),
    TObj(<< <<Lit.type, Str(Lit.object)>>,
            <<Lit.properties, TObj(<< <<PropB, x>>, <<Prop1, y>>, <<PropB, y>> >>)>> >>) }

RECURSIVE Nested(_)
Nested(d) ==
  IF d = 0 THEN SmallLeaves
  ELSE LET inner == Nested(d - 1)
       IN inner \cup UNION {Composed(x) : x \in inner}
                \cup UNION {Shaped(x, x) : x \in inner \ SmallLeaves}

\* Values that are no well-formed schema: a union keyword, properties or
\* items whose value is not of the expected kind, and null.
Malformed ==
  { Null,
    TObj(<< <<Lit.anyOf, TObj(<< >>)>> >>),
    TObj(<< <<Lit.anyOf, Num(0)>>, <<Lit.oneOf, Str(<<97>>)>> >>),
    TObj(<< <<Lit.enum, TArr(<<Str(<<9>>)>>)>>, <<Lit.allOf, Num(1)>> >>),
    TObj(<< <<Lit.anyOf, TArr(<<TEnum(<<Str(<<10>>)>>), TObj(<< <<Lit.oneOf, Bool(TRUE)>> >>)>>)>> >>),
    TObj(<< <<Lit.properties, Str(<<97, 10>>)>> >>),
    TObj(<< <<Lit.properties, Num(1)>> >>),
    TObj(<< <<Lit.type, Str(Lit.object)>>,
            <<Lit.properties, TArr(<<TEnum(<<Str(<<9>>)>>)>>)>> >>),
    TObj(<< <<Lit.items, Str(<<97>>)>> >>),
    TObj(<< <<Lit.type, Num(1)>>, <<Lit.items, Num(0)>>, <<Lit.anyOf, TArr(<<Null, Num(1)>>)>> >>) }

\* Schemas in which strings of several nodes sanitize to the same key:
\* "\n" and "\t" both give " ".
CollidingLeaves ==
  { TEnum(<<Str(<<10>>)>>),
    TEnum(<<Str(<<9>>), Str(<<10>>)>>),
    TConst(Str(<<9>>)),
    TConstEnum(Str(<<10>>), <<Str(<<9>>)>>) }

Colliding(x, y) ==
  { TObj(<< <<Lit.properties, TObj(<< <<PropB, x>>, <<PropA, y>> >>)>> >>),
    TObj(<< <<Lit.anyOf, TArr(<<x, y>>)>> >>),
    TObj(<< <<Lit.enum, TArr(<<Str(<<9>>)>>)>>, <<Lit.type, Str(Lit.array)>>,
            <<Lit.items, x>> >>),
    TObj(<< <<Lit.const, Str(<<10>>)>>,
            <<Lit.properties, TObj(<< <<PropA, x>>, <<Lit["__proto__"], y>> >>)>> >>),
    TObj(<< <<Lit.properties,
              TObj(<< <<PropA, TObj(<< <<Lit.items, x>> >>)>>, <<PropB, y>> >>)>> >>) }

\* Schemas whose root has more than one shape: object-like with items and
\* with union lists, array-like with union lists.
Overlapping(x, y) ==
  { TObj(<< <<Lit.type, Str(Lit.object)>>, <<Lit.anyOf, TArr(<<x, y>>)>>,
            <<Lit.oneOf, TArr(<<y>>)>> >>),
    TObj(<< <<Lit.allOf, TArr(<<x>>)>>, <<Lit.items, y>>,
            <<Lit.properties, TObj(<< <<PropA, y>> >>)>> >>),
    TObj(<< <<Lit.type, Str(Lit.array)>>, <<Lit.oneOf, TArr(<<x, y>>)>> >>),
    TObj(<< <<Lit.allOf, TArr(<<y>>)>>, <<Lit.anyOf, TArr(<<x>>)>>,
            <<Lit.items, x>> >>),
    TObj(<< <<Lit.properties,
              TObj(<< <<PropA, TObj(<< <<Lit.type, Str(Lit.array)>>,
                                       <<Lit.oneOf, TArr(<<x>>)>> >>)>> >>)>>,
            <<Lit.anyOf, TArr(<<y>>)>> >>) }

\* Schemas in which an object-like node, an array-like node, a union-like
\* node and a node of no shape each carry a const or an enum.
EnumOfEveryShape(x) ==
  { TObj(<< <<Lit.enum, TArr(<<Str(<<9>>), Num(1)>>)>>,
            <<Lit.properties,
              TObj(<< <<PropA,
                        TObj(<< <<Lit.const, Str(<<97, 10>>)>>,
                                <<Lit.type, Str(Lit.array)>>,
                                <<Lit.items,
                                  TObj(<< <<Lit.enum, TArr(<<Str(<<13>>)>>)>>,
                                          <<Lit.anyOf, TArr(<<x>>)>> >>)>> >>)>> >>)>> >>),
    TObj(<< <<Lit.const, Str(<<10>>)>>, <<Lit.enum, TArr(<<Str(<<97>>)>>)>>,
            <<Lit.oneOf,
              TArr(<< TObj(<< <<Lit.type, Str(Lit.object)>>,
                              <<Lit.enum, TArr(<<Str(<<9, 97>>)>>)>> >>),
                      TObj(<< <<Lit.items, x>>, <<Lit.const, Str(<<13>>)>> >>) >>)>> >>) }

SchemaTrees ==
  RichLeaves
  \cup UNION {Composed(x) : x \in RichLeaves}
  \cup UNION {Shaped(x, y) : x \in SmallLeaves, y \in SmallLeaves}
  \cup Nested(MaxDepth)
  \cup UNION {Colliding(x, y) : x \in CollidingLeaves, y \in CollidingLeaves}
  \cup UNION {Overlapping(x, y) : x \in SmallLeaves, y \in SmallLeaves}
  \cup UNION {EnumOfEveryShape(x) : x \in SmallLeaves}
  \cup Malformed
  \cup UNION {Composed(x) : x \in Malformed}

(***************************************************************************)
(* Specification SpecSanitize: sanitizeEnumValue applied to every string   *)
(* over a small alphabet.                                                  *)
(***************************************************************************)
\* Longest string handed to sanitizeEnumValue.
MaxStrLen == 3

\* NUL, TAB, LF, CR, US (0x1F), space (0x20), 'a', and a high surrogate.
SanChars == {0, 9, 10, 13, 31, 32, 92, 97, 55357}

RECURSIVE StringsUpTo(_, _)
StringsUpTo(chars, n) ==
  IF n = 0 THEN {<< >>}
  ELSE LET shorter == StringsUpTo(chars, n - 1)
       IN shorter \cup {Append(s, c) : s \in shorter, c \in chars}

\* No further run, no concurrent cycle, no agent sequence.
NoExtra ==
  /\ runs = << >>
  /\ cycles = << >>
  /\ maps = << >>
  /\ agent = << >>

Idle ==
  /\ heap = << >>
  /\ schema = Undefined
  /\ enumMapping = << >>
  /\ strictSchema = Undefined
  /\ original = << >>
  /\ output = Undefined
  /\ restored = Undefined

InitSanitize ==
  /\ pc = "sanitize"
  /\ Idle
  /\ value \in StringsUpTo(SanChars, MaxStrLen)
  /\ sanitized = << >>
  /\ NoExtra

Sanitize ==
  /\ pc = "sanitize"
  /\ sanitized' = sanitizeEnumValue(value)
  /\ pc' = "sanitized"
  /\ UNCHANGED <<heap, schema, enumMapping, strictSchema, original, output,
                 restored, value>>
  /\ UNCHANGED extra

NextSanitize == Sanitize

SpecSanitize == InitSanitize /\ [][NextSanitize]_vars


(***************************************************************************)
(* Specification Spec: one request/response cycle.  A schema is made       *)
(* strict with a fresh mapping, the model answers with the sanitized form  *)
(* of one of the schema's enum strings, and the answer is restored.        *)
(***************************************************************************)
\* The objects and arrays reachable from x, x included.
RECURSIVE Reach(_, _)
Reach(h, x) ==
  IF x.t # "ref" THEN {}
  ELSE {x} \cup UNION {Reach(h, Entries(h, x)[i][2]) : i \in 1..Len(Entries(h, x))}

\* The elements of array value x, << >> when x is no array.
Elems(h, x) == IF IsArray(h, x) THEN h[x.v].v ELSE << >>

\* The strings that are the const value or an enum member of node n.
EnumStringsOf(h, n) ==
  {c \in {Get(h, n, Lit.const)} : IsString(c)}
  \cup {Elems(h, Get(h, n, Lit.enum))[i] :
          i \in {j \in 1..Len(Elems(h, Get(h, n, Lit.enum))) :
                   IsString(Elems(h, Get(h, n, Lit.enum))[j])}}

\* Every string that occurs as an enum member or const value under x.
AllEnumStrings(h, x) ==
  UNION {EnumStringsOf(h, n) : n \in {r \in Reach(h, x) : h[r.v].t = "obj"}}

NoSanitize ==
  /\ value = << >>
  /\ sanitized = << >>

Init ==
  /\ pc = "start"
  /\ \E tr \in SchemaTrees :
       /\ heap = Load(<< >>, tr).h
       /\ schema = Load(<< >>, tr).ret
  /\ enumMapping = NewMap
  /\ strictSchema = Undefined
  /\ original = << >>
  /\ output = Undefined
  /\ restored = Undefined
  /\ NoSanitize
  /\ NoExtra

\* const strictSchema = makeSchemaStrict(userSchema, enumMapping)
Strictify ==
  /\ pc = "start"
  /\ LET r == makeSchemaStrict(heap, schema, enumMapping)
     IN /\ heap' = r.h
        /\ enumMapping' = r.m
        /\ strictSchema' = r.ret
        /\ pc' = IF r.ok THEN "strict" ELSE "threw"
  /\ UNCHANGED <<schema, original, output, restored, value, sanitized>>
  /\ UNCHANGED extra

\* The model returns the sanitized form of an enum string of the schema.
Respond ==
  /\ pc = "strict"
  /\ \E s \in AllEnumStrings(heap, schema) :
       /\ original' = s.v
       /\ output' = Str(sanitizeEnumValue(s.v))
  /\ pc' = "responded"
  /\ UNCHANGED <<heap, schema, enumMapping, strictSchema, restored, value,
                 sanitized>>
  /\ UNCHANGED extra

\* const restored = restoreEnumValues(parsed, enumMapping)
Restore ==
  /\ pc = "responded"
  /\ LET r == restoreEnumValues(heap, output, enumMapping)
     IN /\ heap' = r.h
        /\ restored' = r.ret
  /\ pc' = "restored"
  /\ UNCHANGED <<schema, enumMapping, strictSchema, original, output, value,
                 sanitized>>
  /\ UNCHANGED extra

Next == Strictify \/ Respond \/ Restore

Spec == Init /\ [][Next]_vars

(***************************************************************************)
(* Specification SpecRestore: restoreEnumValues applied to every value     *)
(* tree of a small family, under every mapping of a small family.          *)
(***************************************************************************)
\* Most elements of an array, most properties of an object, of a model
\* output.
MaxWidth == 2

\* " ", "a", "\n", a number, a boolean, null.
ValueLeaves == {Str(<<32>>), Str(<<97>>), Str(<<10>>), Num(1), Bool(TRUE), Null}

\* Property names of a model output: "a", " " (which the mappings below
\* have as a key), "1" (an integer-like key) and "__proto__" (an own
\* property of what JSON.parse returns).
ValueKeys == {<<97>>, <<32>>, Prop1, Lit["__proto__"]}

\* Sequences of <<key, value>> pairs with distinct keys.
EntrySeqs(keys, vals, n) ==
  {es \in SeqsUpTo(keys \X vals, n) :
     \A i, j \in 1..Len(es) : es[i][1] = es[j][1] => i = j}

FlatValues ==
  ValueLeaves
  \cup {TArr(q) : q \in SeqsUpTo(ValueLeaves, MaxWidth)}
  \cup {TObj(es) : es \in EntrySeqs(ValueKeys, ValueLeaves, MaxWidth)}

InnerValues ==
  { Str(<<32>>), Num(1),
    TArr(<<Str(<<32>>), Null>>),
    TObj(<< <<<<32>>, Str(<<32>>)>>, <<<<97>>, Str(<<97>>)>> >>),
    TObj(<< <<Lit["__proto__"], Str(<<32>>)>> >>) }

ValueTrees ==
  FlatValues
  \cup {TArr(q) : q \in SeqsUpTo(InnerValues, MaxWidth)}
  \cup {TObj(es) : es \in EntrySeqs(ValueKeys, InnerValues, MaxWidth)}

\* Mappings over the keys " " and "a", with values "\n", "" and " ".
RestoreMappings ==
  UNION {[D -> {<<10>>, << >>, <<32>>}] : D \in SUBSET {<<32>>, <<97>>}}

InitRestore ==
  /\ pc = "responded"
  /\ schema = Undefined
  /\ strictSchema = Undefined
  /\ original = << >>
  /\ \E tr \in ValueTrees :
       /\ heap = Load(<< >>, tr).h
       /\ output = Load(<< >>, tr).ret
  /\ \E f \in RestoreMappings : enumMapping = MapOf(f)
  /\ restored = Undefined
  /\ NoSanitize
  /\ NoExtra

NextRestore == Restore

SpecRestore == InitRestore /\ [][NextRestore]_vars

(***************************************************************************)
(* The specification SpecRestoreTwice: the mapping is the one a run of     *)
(* makeSchemaStrict filled, the model output is any value tree, and        *)
(* restoreEnumValues is applied to it and then to its own result.          *)
(***************************************************************************)
InitRestoreTwice ==
  /\ pc = "start"
  /\ \E tr \in CollidingLeaves \cup {TString} :
       /\ heap = Load(<< >>, tr).h
       /\ schema = Load(<< >>, tr).ret
  /\ enumMapping = NewMap
  /\ strictSchema = Undefined
  /\ original = << >>
  /\ output = Undefined
  /\ restored = Undefined
  /\ NoSanitize
  /\ NoExtra

\* parsed = JSON.parse(content), for any content
RespondValue ==
  /\ pc = "strict"
  /\ \E tr \in ValueTrees : \E l \in {Load(heap, tr)} :
       /\ heap' = l.h
       /\ output' = l.ret
  /\ pc' = "responded"
  /\ UNCHANGED <<schema, enumMapping, strictSchema, original, restored, value,
                 sanitized>>
  /\ UNCHANGED extra

\* restoreEnumValues(restored, enumMapping)
RestoreAgain ==
  /\ pc = "restored"
  /\ \E r \in {restoreEnumValues(heap, restored, enumMapping)} :
       /\ heap' = r.h
       /\ runs' = [again |-> r.ret]
  /\ pc' = "again"
  /\ UNCHANGED <<schema, enumMapping, strictSchema, original, output, restored,
                 value, sanitized, cycles, maps, agent>>

NextRestoreTwice == Strictify \/ RespondValue \/ Restore \/ RestoreAgain

SpecRestoreTwice == InitRestoreTwice /\ [][NextRestoreTwice]_vars

(***************************************************************************)
(* Specification SpecRuns: makeSchemaStrict called on one schema with a    *)
(* mapping, then without one, then on its own result.                      *)
(***************************************************************************)
\* The mapping handed to the first call: a new Map, or one with entries.
RunMappings ==
  { NewMap, MapOf(<<32>> :> <<120>>),
    MapOf(<<32>> :> <<120>> @@ <<122>> :> <<10>>) }

NoRun == [ret |-> Undefined, m |-> NoMapping, ok |-> FALSE]

InitRuns ==
  /\ pc = "start"
  /\ \E tr \in SchemaTrees :
       /\ heap = Load(<< >>, tr).h
       /\ schema = Load(<< >>, tr).ret
  /\ enumMapping \in RunMappings
  /\ strictSchema = Undefined
  /\ original = << >>
  /\ output = Undefined
  /\ restored = Undefined
  /\ NoSanitize
  /\ runs = [given |-> enumMapping, bare |-> NoRun, again |-> NoRun]
  /\ cycles = << >>
  /\ maps = << >>
  /\ agent = << >>

\* makeSchemaStrict(schema): the call without the second argument, as in
\* convertToolsToStrictOpenAIFormat.
StrictifyWithout ==
  /\ pc = "strict"
  /\ \E r \in {makeSchemaStrict(heap, schema, NoMapping)} :
        /\ heap' = r.h
        /\ runs' = [runs EXCEPT !.bare = [ret |-> r.ret, m |-> r.m, ok |-> r.ok]]
  /\ pc' = "bare"
  /\ UNCHANGED <<schema, enumMapping, strictSchema, original, output, restored,
                 value, sanitized, cycles, maps, agent>>

\* makeSchemaStrict(strictSchema, enumMapping): the Strictifier run on its
\* own output, with the mapping of the first run.
StrictifyAgain ==
  /\ pc = "bare"
  /\ \E r \in {makeSchemaStrict(heap, strictSchema, enumMapping)} :
        /\ heap' = r.h
        /\ runs' = [runs EXCEPT !.again = [ret |-> r.ret, m |-> r.m, ok |-> r.ok]]
  /\ pc' = "again"
  /\ UNCHANGED <<schema, enumMapping, strictSchema, original, output, restored,
                 value, sanitized, cycles, maps, agent>>

NextRuns == Strictify \/ StrictifyWithout \/ StrictifyAgain

SpecRuns == InitRuns /\ [][NextRuns]_vars

(***************************************************************************)
(* The specification SpecEscape: approach C of prove-escape-approach.mjs.  *)
(* A raw string is escaped into the enum of the schema, the model returns  *)
(* the enum member, and the script turns the escapes back.                 *)
(***************************************************************************)
\* s.replace(/ab/g, by) for the two code units a, b: scan left to right,
\* a match is replaced and the scan goes on behind it.
RECURSIVE ReplacePair(_, _, _, _)
ReplacePair(s, a, b, by) ==
  IF Len(s) < 2 THEN s
  ELSE IF s[1] = a /\ s[2] = b
  THEN by \o ReplacePair(SubSeq(s, 3, Len(s)), a, b, by)
  ELSE <<s[1]>> \o ReplacePair(Tail(s), a, b, by)

\* raw.replace(/\\/g, '\\\\').replace(/\n/g, '\\n').replace(/\r/g, '\\r')
\*    .replace(/\t/g, '\\t')
withEscapes(raw) ==
  ReplaceAll(ReplaceAll(ReplaceAll(ReplaceAll(raw, {92}, <<92, 92>>),
                                   {10}, <<92, 110>>),
                        {13}, <<92, 114>>),
             {9}, <<92, 116>>)

\* parsed.content.replace(/\\n/g, '\n').replace(/\\r/g, '\r')
\*    .replace(/\\t/g, '\t').replace(/\\\\/g, '\\')
RestoreEscapes(content) ==
  ReplacePair(ReplacePair(ReplacePair(ReplacePair(content, 92, 110, <<10>>),
                                      92, 114, <<13>>),
                          92, 116, <<9>>),
              92, 92, <<92>>)

\* Backslash, n, r, t, LF, CR, TAB and 'a'.
EscChars == {92, 110, 114, 116, 10, 13, 9, 97}

InitEscape ==
  /\ pc = "raw"
  /\ value \in StringsUpTo(EscChars, MaxStrLen)
  /\ sanitized = << >>
  /\ heap = << >>
  /\ schema = Undefined
  /\ enumMapping = << >>
  /\ strictSchema = Undefined
  /\ original = << >>
  /\ output = Undefined
  /\ restored = Undefined
  /\ NoExtra

\* const withEscapes = raw.replace(...)
Escape ==
  /\ pc = "raw"
  /\ sanitized' = withEscapes(value)
  /\ pc' = "escaped"
  /\ UNCHANGED <<heap, schema, enumMapping, strictSchema, original, output,
                 restored, value>>
  /\ UNCHANGED extra

\* The model answers with the one member of the enum of content.
ModelReturns ==
  /\ pc = "escaped"
  /\ output' = Str(sanitized)
  /\ pc' = "returned"
  /\ UNCHANGED <<heap, schema, enumMapping, strictSchema, original, restored,
                 value, sanitized>>
  /\ UNCHANGED extra

\* const restored = parsed.content.replace(...)
Unescape ==
  /\ pc = "returned"
  /\ restored' = Str(RestoreEscapes(output.v))
  /\ pc' = "unescaped"
  /\ UNCHANGED <<heap, schema, enumMapping, strictSchema, original, output,
                 value, sanitized>>
  /\ UNCHANGED extra

NextEscape == Escape \/ ModelReturns \/ Unescape

SpecEscape == InitEscape /\ [][NextEscape]_vars

(***************************************************************************)
(* The specification SpecCycles: two request/response cycles in flight at  *)
(* once.  Each creates its own Map, strictifies its schema, awaits the     *)
(* model and restores the answer.  The calls of makeSchemaStrict and       *)
(* restoreEnumValues are synchronous, so each is one step; the cycles      *)
(* interleave where they await.  All objects live in the one heap.         *)
(***************************************************************************)
Cycles == {1, 2}

\* The Map instance cycle i hands to both of its calls: its own.
MapFor_Shared(i) == CHOOSE j \in Cycles : \A k \in Cycles : j <= k

MapFor(i) == i

CycleTrees ==
  { TEnum(<<Str(<<10>>)>>),
    TEnum(<<Str(<<9>>), Str(<<97>>)>>),
    TObj(<< <<Lit.properties,
              TObj(<< <<PropB, TEnum(<<Str(<<9>>)>>)>>,
                      <<PropA, TConst(Str(<<97, 10>>))>> >>)>> >>),
    TObj(<< <<Lit.anyOf, TArr(<<TConst(Str(<<10>>)), TKeywords>>)>> >>) }

NewCycle(tr, sch) ==
  [pc |-> "start", tree |-> tr, schema |-> sch, strictSchema |-> Undefined,
   outTree |-> Undefined, output |-> Undefined, restored |-> Undefined]

\* Two cycles with the same schema use the same object (the userSchema of
\* the module); two with different schemas have one object each.
InitCycles ==
  /\ pc = "cycles"
  /\ \E t1 \in CycleTrees, t2 \in CycleTrees :
       LET l1 == Load(<< >>, t1)
           l2 == IF t2 = t1 THEN l1 ELSE Load(l1.h, t2)
       IN /\ heap = l2.h
          /\ cycles = [i \in Cycles |->
                         IF i = 1 THEN NewCycle(t1, l1.ret) ELSE NewCycle(t2, l2.ret)]
  /\ maps = [j \in Cycles |-> NewMap]
  /\ schema = Undefined
  /\ enumMapping = << >>
  /\ strictSchema = Undefined
  /\ original = << >>
  /\ output = Undefined
  /\ restored = Undefined
  /\ NoSanitize
  /\ runs = << >>
  /\ agent = << >>

\* const strictSchema = makeSchemaStrict(userSchema, enumMapping), in cycle i
CycleStrictify(i) ==
  /\ cycles[i].pc = "start"
  /\ LET r == makeSchemaStrict(heap, cycles[i].schema, maps[MapFor(i)])
     IN /\ heap' = r.h
        /\ maps' = [maps EXCEPT ![MapFor(i)] = r.m]
        /\ cycles' = [cycles EXCEPT ![i].strictSchema = r.ret,
                                    ![i].pc = IF r.ok THEN "strict" ELSE "threw"]
  /\ UNCHANGED <<pc, schema, enumMapping, strictSchema, original, output,
                 restored, value, sanitized, runs, agent>>

\* The model answers cycle i with the sanitized form of one of its enum
\* strings, bare or as the property of an object; JSON.parse builds it.
CycleRespond(i) ==
  /\ cycles[i].pc = "strict"
  /\ \E s \in AllEnumStrings(heap, cycles[i].schema) :
       \E tr \in { Str(sanitizeEnumValue(s.v)),
                   TObj(<< <<PropA, Str(sanitizeEnumValue(s.v))>> >>) } :
         LET l == Load(heap, tr)
         IN /\ heap' = l.h
            /\ cycles' = [cycles EXCEPT ![i].outTree = tr,
                                        ![i].output = l.ret,
                                        ![i].pc = "responded"]
  /\ UNCHANGED <<pc, schema, enumMapping, strictSchema, original, output,
                 restored, value, sanitized, runs, maps, agent>>

\* const restored = restoreEnumValues(parsed, enumMapping), in cycle i
CycleRestore(i) ==
  /\ cycles[i].pc = "responded"
  /\ LET r == restoreEnumValues(heap, cycles[i].output, maps[MapFor(i)])
     IN /\ heap' = r.h
        /\ cycles' = [cycles EXCEPT ![i].restored = r.ret,
                                    ![i].pc = "restored"]
  /\ UNCHANGED <<pc, schema, enumMapping, strictSchema, original, output,
                 restored, value, sanitized, runs, maps, agent>>

NextCycles ==
  \E i \in Cycles : CycleStrictify(i) \/ CycleRespond(i) \/ CycleRestore(i)

SpecCycles == InitCycles /\ [][NextCycles]_vars

\* One cycle run alone on schema tr, answered by out: the strictified
\* schema, the mapping and the restored answer, as documents.
Alone(tr, out) ==
  LET l == Load(<< >>, tr)
      r == makeSchemaStrict(l.h, l.ret, NewMap)
      o == Load(r.h, out)
      b == restoreEnumValues(o.h, o.ret, r.m)
  IN [strictSchema |-> Tree(r.h, r.ret), m |-> r.m,
      restored |-> Tree(b.h, b.ret)]

(***************************************************************************)
(* The specification SpecAgent: createAgentSequence builds the sequence    *)
(* agent -> steps parser for a configuration; runAgent invokes it for each *)
(* item.  An invocation is in flight between its steps: the call, the      *)
(* handleLLMStart callback, the model's response or failure, and the steps *)
(* parser each run to their next await, and the steps of the items         *)
(* interleave.  agent.log records what createAgentSequence did, in order,  *)
(* and agent.items[i].log what happened to the invocation of item i.       *)
(***************************************************************************)
\* The values of options.structuredOutputMethod; "undefined" when the
\* option is not set.
Methods == {"toolCalling", "jsonSchema", "undefined"}

AgentTrees == CycleTrees \cup {TString}

\* No Map: the enumMapping of bindModelWithTools left undefined.
NoMap == 0

\* No binding made yet.
NoBinding ==
  [tools |-> FALSE, toolChoice |-> "", format |-> Undefined,
   enumMapping |-> NoMap]

\* A faulty variant, used against C24: the tool is forced whenever there
\* is an output parser.
ToolChoice_AnyParser(a) ==
  IF a.parser THEN "format_final_json_response" ELSE ""

\* configArgs.tool_choice: the function format_final_json_response with an
\* output parser outside jsonSchema mode, else not set ("").
ToolChoice(a) ==
  IF a.parser /\ a.method # "jsonSchema"
  THEN "format_final_json_response" ELSE ""

\* model.withConfig(configArgs): the tools, and the tool choice if any.
WithTools(a) ==
  [tools |-> TRUE, toolChoice |-> ToolChoice(a), format |-> Undefined,
   enumMapping |-> NoMap]

Event(e, who, map) == [e |-> e, who |-> who, map |-> map]

\* getResponseFormatConfig(outputParser): a new Map and the parser's schema
\* strictified with it; returns the config and that Map.
ResponseFormat(r, ms) ==
  [h |-> r.h, maps |-> Append(ms, r.m),
   config |-> r.ret, enumMapping |-> Len(ms) + 1]

getResponseFormatConfig(h, ms, sch) ==
  ResponseFormat(makeSchemaStrict(h, sch, NewMap), ms)

\* bound.withConfig({ response_format: result.config }) and
\* enumMapping = result.enumMapping, for the result of
\* getResponseFormatConfig.
WithResponseFormat(bound, result) ==
  [h |-> result.h, maps |-> result.maps, strictified |-> TRUE,
   bound |-> [bound EXCEPT !.format = result.config,
                           !.enumMapping = result.enumMapping]]

\* bindModelWithTools(model, allTools, options, outputParser): the
\* response_format is layered on, and a mapping produced, only with an
\* output parser in jsonSchema mode.
bindModelWithTools(h, ms, a) ==
  IF a.parser /\ a.method = "jsonSchema"
  THEN WithResponseFormat(WithTools(a),
                          getResponseFormatConfig(h, ms, a.schema))
  ELSE [h |-> h, maps |-> ms, strictified |-> FALSE, bound |-> WithTools(a)]

\* The enumMapping createAgentSequence hands to getAgentStepsParser: the
\* one destructured from the primary model's binding.
StepsMapping_OfFallback(a) == a.fallbackBound.enumMapping

StepsMapping(a) == a.primaryBound.enumMapping

\* The items runAgent is called for.
Items == {1, 2}

\* The extraParams a model hands to handleLLMStart: none, the invocation
\* parameters themselves, or an object that holds them; the parameters have
\* a tools array or none.
ExtraParamsTrees ==
  LET tool == TObj(<< <<Lit.type, Str(Lit.function)>>,
                      <<Lit.function,
                        TObj(<< <<Lit.parameters,
                                  TObj(<< <<Lit.properties,
                                            TObj(<< <<PropA, TString>> >>)>> >>)>> >>)>> >>)
  IN { Undefined,
       TObj(<< <<Lit.tools, TArr(<<Null, tool>>)>> >>),
       TObj(<< <<Lit.invocation_params,
                 TObj(<< <<Lit.tools, TArr(<<tool>>)>> >>)>>,
               <<Lit.tools, Num(1)>> >>) }

\* An item runAgent was not yet called for.
NewItem ==
  [pc |-> "idle", who |-> "", outTree |-> Undefined, result |-> Undefined,
   log |-> << >>]

InitAgent ==
  /\ pc = "agent"
  /\ \E tr \in AgentTrees, op \in BOOLEAN, me \in Methods, fb \in BOOLEAN,
        ex \in ExtraParamsTrees :
       LET l == Load(<< >>, tr)
           e == Load(l.h, ex)
       IN /\ heap = e.h
          /\ agent = [pc |-> "create", parser |-> op, method |-> me,
                      fallback |-> fb, schema |-> l.ret,
                      extraParams |-> e.ret,
                      primaryBound |-> NoBinding, fallbackBound |-> NoBinding,
                      stepsMapping |-> NoMap, log |-> << >>,
                      items |-> [i \in Items |-> NewItem]]
  /\ maps = << >>
  /\ schema = Undefined
  /\ enumMapping = << >>
  /\ strictSchema = Undefined
  /\ original = << >>
  /\ output = Undefined
  /\ restored = Undefined
  /\ NoSanitize
  /\ runs = << >>
  /\ cycles = << >>

AgentFrame ==
  UNCHANGED <<pc, schema, enumMapping, strictSchema, original, output,
              restored, value, sanitized, runs, cycles>>

Logged(a, b, who) ==
  IF b.strictified
  THEN Append(a.log, Event("strictify", who, b.bound.enumMapping))
  ELSE a.log

\* const { bound: primaryBound, enumMapping } = bindModelWithTools(model, ...)
BindPrimary ==
  /\ agent.pc = "create"
  /\ \E b \in {bindModelWithTools(heap, maps, agent)} :
        /\ heap' = b.h
        /\ maps' = b.maps
        /\ agent' = [agent EXCEPT !.primaryBound = b.bound,
                                  !.log = Logged(agent, b, "primary"),
                                  !.pc = IF agent.fallback THEN "fallback"
                                                           ELSE "sequence"]
  /\ AgentFrame

\* fallbackBound = bindModelWithTools(fallbackModel, ...).bound
BindFallback ==
  /\ agent.pc = "fallback"
  /\ \E b \in {bindModelWithTools(heap, maps, agent)} :
        /\ heap' = b.h
        /\ maps' = b.maps
        /\ agent' = [agent EXCEPT !.fallbackBound = b.bound,
                                  !.log = Logged(agent, b, "fallback"),
                                  !.pc = "sequence"]
  /\ AgentFrame

\* RunnableSequence.from([agent, getAgentStepsParser(..., enumMapping), ...])
BuildSequence ==
  /\ agent.pc = "sequence"
  /\ agent' = [agent EXCEPT !.stepsMapping = StepsMapping(agent),
                            !.pc = "built"]
  /\ UNCHANGED <<heap, maps>>
  /\ AgentFrame

(***************************************************************************)
(* The in-place sanitizers of tool parameter schemas:                      *)
(* sanitizeJsonSchemaStrict of createAgentSequence.ts and                  *)
(* normalizeToolParametersSchema of runAgent.ts.  Both write into the      *)
(* schema they are given and return nothing: the result is the heap.       *)
(***************************************************************************)
\* The one element of a set of one: The({F(y) : y \in {e}}) is F(e) with e
\* evaluated once, before F, as a statement is before the next one.
The(S) == CHOOSE r \in S : TRUE

RECURSIVE sanitizeJsonSchemaStrict(_, _)
RECURSIVE SanitizeAt(_, _, _)

\* for (const key of keys) sanitizeJsonSchemaStrict(x[key]), and
\* x.forEach(sanitizeJsonSchemaStrict) with keys the indices of x: each call
\* works on the heap the call before it left.
SanitizeAt(h, x, keys) ==
  IF keys = << >> THEN h
  ELSE The({ SanitizeAt(g, x, Tail(keys)) :
               g \in { sanitizeJsonSchemaStrict(h, y) : y \in {Get(h, x, Head(keys))} } })

\* if (Array.isArray(schema[k])) schema[k].forEach(sanitizeJsonSchemaStrict)
SanitizeList(h, x, k) ==
  The({ IF IsArray(h, list) THEN The({ SanitizeAt(h, list, keys) : keys \in {Indices(h, list)} })
        ELSE h :
          list \in {Get(h, x, k)} })

\* const keys = Object.keys(schema.properties); schema.required = keys;
\* for (const key of keys) sanitizeJsonSchemaStrict(schema.properties[key])
SanitizeProperties(h, x, p, keys) ==
  The({ SanitizeAt(h2, p, keys) :
          h2 \in { SetProp(h1, x.v, Lit.required, Ref(Len(h1))) :
                    h1 \in {Alloc(h, ArrCell([i \in 1..Len(keys) |-> Str(keys[i])]))} } })

\* if (schema.type === 'object' || schema.properties) {
\*   schema.additionalProperties = false;
\*   if (schema.properties && typeof schema.properties === 'object') ... }
SanitizeObject(h, x) ==
  IF Get(h, x, Lit.type) = Str(Lit.object) \/ Truthy(Get(h, x, Lit.properties))
  THEN The({ The({ IF Truthy(p) /\ IsObject(p)
                   THEN The({ SanitizeProperties(h1, x, p, keys) :
                                keys \in {Keys(h1, p)} })
                   ELSE h1 :
                     p \in {Get(h1, x, Lit.properties)} }) :
               h1 \in {SetProp(h, x.v, Lit.additionalProperties, Bool(FALSE))} })
  ELSE h

\* delete schema.$schema
SanitizeDelete(h, x) == DeleteProp(h, x.v, Lit["$schema"])

\* if (schema.items) sanitizeJsonSchemaStrict(schema.items)
SanitizeItems(h, x) ==
  The({ IF Truthy(items) THEN sanitizeJsonSchemaStrict(h, items) ELSE h :
          items \in {Get(h, x, Lit.items)} })

\* A faulty variant, used against C29: the steps are alternatives, as in the
\* else-if chain of makeSchemaStrict.
sanitizeJsonSchemaStrict_Exclusive(h, x) ==
  IF ~(Truthy(x) /\ IsObject(x)) THEN h
  ELSE The(
    { IF Get(h1, x, Lit.type) = Str(Lit.object)
         \/ Truthy(Get(h1, x, Lit.properties))
      THEN SanitizeObject(h1, x)
      ELSE IF Truthy(Get(h1, x, Lit.items)) THEN SanitizeItems(h1, x)
      ELSE IF IsArray(h1, Get(h1, x, Lit.anyOf))
      THEN SanitizeList(h1, x, Lit.anyOf)
      ELSE IF IsArray(h1, Get(h1, x, Lit.oneOf))
      THEN SanitizeList(h1, x, Lit.oneOf)
      ELSE SanitizeList(h1, x, Lit.allOf) :
        h1 \in { SanitizeDelete(h, x) } })

\* The statements in order, each on the heap the one before it left.
sanitizeJsonSchemaStrict(h, x) ==
  IF ~(Truthy(x) /\ IsObject(x)) THEN h
  ELSE The(
    { SanitizeList(h5, x, Lit.allOf) :
        h5 \in { SanitizeList(h4, x, Lit.oneOf) :
          h4 \in { SanitizeList(h3, x, Lit.anyOf) :
            h3 \in { SanitizeItems(h2, x) :
              h2 \in { SanitizeObject(h1, x) :
                h1 \in { SanitizeDelete(h, x) } } } } } })

RECURSIVE normalizeToolParametersSchema(_, _)
RECURSIVE NormalizeAt(_, _, _)

\* for (const key of keys) normalizeToolParametersSchema(x[key]), and
\* x.forEach(normalizeToolParametersSchema) with keys the indices of x: each call
\* works on the heap the call before it left.
NormalizeAt(h, x, keys) ==
  IF keys = << >> THEN h
  ELSE The({ NormalizeAt(g, x, Tail(keys)) :
               g \in { normalizeToolParametersSchema(h, y) : y \in {Get(h, x, Head(keys))} } })

\* if (Array.isArray(schema[k])) schema[k].forEach(normalizeToolParametersSchema)
NormalizeList(h, x, k) ==
  The({ IF IsArray(h, list) THEN The({ NormalizeAt(h, list, keys) : keys \in {Indices(h, list)} })
        ELSE h :
          list \in {Get(h, x, k)} })

\* const keys = Object.keys(schema.properties); schema.required = keys;
\* for (const key of keys) normalizeToolParametersSchema(schema.properties[key])
NormalizeProperties(h, x, p, keys) ==
  The({ NormalizeAt(h2, p, keys) :
          h2 \in { SetProp(h1, x.v, Lit.required, Ref(Len(h1))) :
                    h1 \in {Alloc(h, ArrCell([i \in 1..Len(keys) |-> Str(keys[i])]))} } })

\* if (schema.type === 'object' || schema.properties) {
\*   schema.additionalProperties = false;
\*   if (schema.properties && typeof schema.properties === 'object') ... }
NormalizeObject(h, x) ==
  IF Get(h, x, Lit.type) = Str(Lit.object) \/ Truthy(Get(h, x, Lit.properties))
  THEN The({ The({ IF Truthy(p) /\ IsObject(p)
                   THEN The({ NormalizeProperties(h1, x, p, keys) :
                                keys \in {Keys(h1, p)} })
                   ELSE h1 :
                     p \in {Get(h1, x, Lit.properties)} }) :
               h1 \in {SetProp(h, x.v, Lit.additionalProperties, Bool(FALSE))} })
  ELSE h

\* delete schema.$schema
NormalizeDelete(h, x) == DeleteProp(h, x.v, Lit["$schema"])

\* if (schema.items) normalizeToolParametersSchema(schema.items)
NormalizeItems(h, x) ==
  The({ IF Truthy(items) THEN normalizeToolParametersSchema(h, items) ELSE h :
          items \in {Get(h, x, Lit.items)} })

\* The statements in order, each on the heap the one before it left.
normalizeToolParametersSchema(h, x) ==
  IF ~(Truthy(x) /\ IsObject(x)) THEN h
  ELSE The(
    { NormalizeList(h5, x, Lit.allOf) :
        h5 \in { NormalizeList(h4, x, Lit.oneOf) :
          h4 \in { NormalizeList(h3, x, Lit.anyOf) :
            h3 \in { NormalizeItems(h2, x) :
              h2 \in { NormalizeObject(h1, x) :
                h1 \in { NormalizeDelete(h, x) } } } } } })

(***************************************************************************)
(* The specification SpecInPlace: one tool parameters schema, in two       *)
(* copies; sanitizeJsonSchemaStrict runs on the first when the model is    *)
(* bound, normalizeToolParametersSchema on the second when the agent is    *)
(* invoked.                                                                *)
(***************************************************************************)
\* Object-like nodes that carry $schema, stale required lists and an open
\* additionalProperties, under every keyword the sanitizers follow.
Parameters(x) ==
  { TObj(<< <<Lit["$schema"], Str(<<97>>)>>, <<Lit.type, Str(Lit.object)>>,
            <<Lit.properties,
              TObj(<< <<PropA,
                        TObj(<< <<Lit["$schema"], Str(<<97>>)>>,
                                <<Lit.additionalProperties, Bool(TRUE)>>,
                                <<Lit.properties, TObj(<< <<PropB, x>> >>)>>,
                                <<Lit.required, TArr(<< >>)>> >>)>>,
                      <<Lit.required, x>> >>)>>,
            <<Lit.required, TArr(<<Str(PropA), Str(PropB)>>)>> >>),
    TObj(<< <<Lit.type, Str(Lit.array)>>,
            <<Lit.items,
              TObj(<< <<Lit.properties, TObj(<< <<PropA, x>> >>)>>,
                      <<Lit.items,
                        TObj(<< <<Lit.type, Str(Lit.object)>>,
                                <<Lit["$schema"], Num(1)>> >>)>>,
                      <<Lit.anyOf, TArr(<<TObj(<< <<Lit.type, Str(Lit.object)>> >>), x>>)>>,
                      <<Lit.oneOf,
                        TArr(<<TObj(<< <<Lit.properties, TObj(<< >>)>>,
                                       <<Lit["$schema"], Null>> >>)>>)>>,
                      <<Lit.allOf,
                        TArr(<<TObj(<< <<Lit.properties,
                                         TObj(<< <<PropB, x>>, <<PropA, x>> >>)>> >>)>>)>> >>)>> >>),
    TObj(<< <<Lit.properties, TObj(<< <<PropB, x>>, <<Prop1, x>> >>)>>,
            <<Lit.required, TArr(<<Str(PropB), Str(Prop1)>>)>> >>),
    TObj(<< <<Lit.properties, Num(1)>>,
            <<Lit.items, TArr(<<TObj(<< <<Lit.type, Str(Lit.object)>> >>), x>>)>>,
            <<Lit.allOf, TArr(<<x, TObj(<< <<Lit.type, Str(Lit.object)>>,
                                           <<Lit.items, x>> >>)>>)>> >>) }

ParameterTrees ==
  UNION {Parameters(x) : x \in SmallLeaves}
  \cup UNION {Shaped(x, y) : x \in SmallLeaves, y \in SmallLeaves}
  \cup UNION {Overlapping(x, y) : x \in SmallLeaves, y \in SmallLeaves}
  \cup Nested(MaxDepth)
  \cup Malformed
  \cup UNION {Composed(x) : x \in Malformed}

\* fn.parameters of a tool, and the same document as the parameters of the
\* tool the agent is invoked with.
InitInPlace ==
  /\ pc = "tool"
  /\ \E tr \in ParameterTrees : \E l \in {Load(<< >>, tr)} :
       \E c \in {Load(l.h, tr)} :
         /\ heap = c.h
         /\ schema = l.ret
         /\ runs = [parameters |-> c.ret]
  /\ enumMapping = << >>
  /\ strictSchema = Undefined
  /\ original = << >>
  /\ output = Undefined
  /\ restored = Undefined
  /\ NoSanitize
  /\ cycles = << >>
  /\ maps = << >>
  /\ agent = << >>

\* sanitizeJsonSchemaStrict(fn.parameters)
SanitizeParameters ==
  /\ pc = "tool"
  /\ heap' = sanitizeJsonSchemaStrict(heap, schema)
  /\ pc' = "sanitized"
  /\ UNCHANGED <<schema, enumMapping, strictSchema, original, output,
                 restored, value, sanitized>>
  /\ UNCHANGED extra

\* normalizeToolParametersSchema(parameters)
NormalizeParameters ==
  /\ pc = "sanitized"
  /\ heap' = normalizeToolParametersSchema(heap, runs.parameters)
  /\ pc' = "normalized"
  /\ UNCHANGED <<schema, enumMapping, strictSchema, original, output,
                 restored, value, sanitized>>
  /\ UNCHANGED extra

NextInPlace == SanitizeParameters \/ NormalizeParameters

SpecInPlace == InitInPlace /\ [][NextInPlace]_vars

(***************************************************************************)
(* sanitizeBoundToolsForStrictMode(boundModel): the walk along node.bound. *)
(* The walk is one call of `walk` per step; `visited` is the Set of the    *)
(* source, `visits` the nodes in the order their bodies ran.               *)
(***************************************************************************)
\* Longest chain of bound models.
MaxChain == 3

\* x?.k
OptGet(h, x, k) == IF x.t \in {"undefined", "null"} THEN Undefined ELSE Get(h, x, k)

\* [node?.config?.tools, node?.kwargs?.tools].filter(Array.isArray)
ToolArrays(h, node) ==
  SelectSeq(<< OptGet(h, OptGet(h, node, Lit.config), Lit.tools),
               OptGet(h, OptGet(h, node, Lit.kwargs), Lit.tools) >>,
            LAMBDA a : IsArray(h, a))

\* fn.strict = true;
\* if (fn.parameters && typeof fn.parameters === 'object') {
\*   sanitizeJsonSchemaStrict(fn.parameters); sanitizedCount++ }
StrictFunction(r, fn) ==
  The({ The({ IF Truthy(p) /\ IsObject(p)
              THEN [h |-> sanitizeJsonSchemaStrict(h1, p), n |-> r.n + 1]
              ELSE [h |-> h1, n |-> r.n] :
                p \in {Get(h1, fn, Lit.parameters)} }) :
          h1 \in {SetProp(r.h, fn.v, Lit.strict, Bool(TRUE))} })

\* The body of the tools loop on the heap and count r = [h, n]:
\*   const fn = tool?.function; if (!fn || typeof fn !== 'object') continue;
SanitizeTool(r, tool) ==
  The({ IF ~Truthy(fn) \/ ~IsObject(fn) THEN r ELSE StrictFunction(r, fn) :
          fn \in {OptGet(r.h, tool, Lit.function)} })

\* for (const tool of tools) ..., from index i on: the elements are read
\* as the loop reaches them.
RECURSIVE SanitizeTools(_, _, _)
SanitizeTools(r, tools, i) ==
  IF i > Len(r.h[tools.v].v) THEN r
  ELSE The({ SanitizeTools(q, tools, i + 1) :
               q \in { SanitizeTool(r, tool) : tool \in {r.h[tools.v].v[i]} } })

\* for (const tools of toolArrays) ...
RECURSIVE SanitizeToolArrays(_, _)
SanitizeToolArrays(r, arrays) ==
  IF arrays = << >> THEN r
  ELSE The({ SanitizeToolArrays(q, Tail(arrays)) :
               q \in { SanitizeTools(r, tools, 1) : tools \in {Head(arrays)} } })

\* A faulty guard, used against C30: the Set is not consulted.
Unvisited_NoSet(h, node, visited) == Truthy(node) /\ IsObject(node)

\* !(!node || typeof node !== 'object' || visited.has(node))
Unvisited(h, node, visited) ==
  Truthy(node) /\ IsObject(node) /\ node.v \notin visited

(***************************************************************************)
(* The specification SpecWalk: a chain of up to MaxChain bound models,     *)
(* the last of which has no bound, a bound that is no object, or a bound   *)
(* that is a model of the chain.                                           *)
(***************************************************************************)
\* Parameter schemas of a tool's function.
ToolParameters ==
  { TObj(<< <<Lit["$schema"], Str(<<97>>)>>, <<Lit.type, Str(Lit.object)>>,
            <<Lit.properties, TObj(<< <<PropA, TString>> >>)>> >>),
    TArr(<<TObj(<< <<Lit.type, Str(Lit.object)>> >>)>>),
    Str(<<97>>) }

\* The elements of a tools array: OpenAI function tools with and without a
\* parameters schema, with a strict flag that is not true, with an array
\* as function, and values with no function object.
ToolTrees ==
  {TObj(<< <<Lit.type, Str(Lit.function)>>,
           <<Lit.function, TObj(<< <<Lit.parameters, p>> >>)>> >>) :
     p \in ToolParameters}
  \cup { TObj(<< <<Lit.function, TObj(<< <<Lit.strict, Bool(FALSE)>> >>)>> >>),
         TObj(<< <<Lit.function, TArr(<< >>)>> >>),
         TObj(<< <<Lit.function, TArr(<<TObj(<< <<PropA, Num(1)>> >>)>>)>> >>),
         TObj(<< <<Lit.function, Str(<<97>>)>> >>),
         Null }

\* The bound models: tools under config, under kwargs, under both, under
\* neither, and a config whose tools is no array.
NodeTrees ==
  {TObj(<< <<Lit.config, TObj(<< <<Lit.tools, TArr(ts)>> >>)>> >>) :
     ts \in {<<t>> : t \in ToolTrees} \cup {<<Null, t>> : t \in ToolTrees}}
  \cup {TObj(<< <<Lit.kwargs, TObj(<< <<Lit.tools, TArr(<<t>>)>> >>)>> >>) :
          t \in ToolTrees}
  \cup { TObj(<< <<Lit.config,
                   TObj(<< <<Lit.tools,
                             TObj(<< <<Lit.function, TObj(<< >>)>> >>)>> >>)>>,
                 <<Lit.kwargs,
                   TObj(<< <<Lit.tools,
                             TArr(<<TObj(<< <<Lit.function, TObj(<< >>)>> >>)>>)>> >>)>> >>),
         TObj(<< <<Lit.config, Null>>, <<Lit.kwargs, Str(<<97>>)>> >>) }

\* A few models for the inner positions of a chain.
InnerNodes ==
  { TObj(<< <<Lit.kwargs,
              TObj(<< <<Lit.tools,
                        TArr(<<TObj(<< <<Lit.function,
                                         TObj(<< <<Lit.strict, Bool(FALSE)>> >>)>> >>)>>)>> >>)>> >>),
    TObj(<< >>) }

\* The chains as trees, innermost model last: node.bound is the next one.
RECURSIVE ChainTrees(_)
ChainTrees(n) ==
  IF n = 1 THEN NodeTrees
  ELSE {TObj(Append(m.v, <<Lit.bound, c>>)) :
          m \in InnerNodes, c \in ChainTrees(n - 1)}

\* The models along bound from x, x first; the chain ends at a value that
\* is no object or at a model already on it.
RECURSIVE ChainFrom(_, _, _)
ChainFrom(h, x, seen) ==
  IF ~IsObject(x) \/ (\E i \in 1..Len(seen) : seen[i] = x) THEN seen
  ELSE ChainFrom(h, Get(h, x, Lit.bound), Append(seen, x))

NoWalk == [node |-> Undefined, visited |-> {}, visits |-> << >>,
           sanitizedCount |-> 0]

\* The bound model handed to sanitizeBoundToolsForStrictMode.  The bound
\* of the innermost model is absent, a string, or a model of the chain.
InitWalk ==
  /\ pc = "bound"
  /\ \E n \in 1..MaxChain : \E tr \in ChainTrees(n) : \E l \in {Load(<< >>, tr)} :
       LET chain == ChainFrom(l.h, l.ret, << >>)
           last  == chain[Len(chain)]
       IN /\ schema = l.ret
          /\ \E b \in {Undefined, Str(<<97>>)} \cup {chain[i] : i \in 1..Len(chain)} :
               heap = IF b = Undefined THEN l.h
                      ELSE SetProp(l.h, last.v, Lit.bound, b)
  /\ runs = NoWalk
  /\ enumMapping = << >>
  /\ strictSchema = Undefined
  /\ original = << >>
  /\ output = Undefined
  /\ restored = Undefined
  /\ value = << >>
  /\ sanitized = << >>
  /\ cycles = << >>
  /\ maps = << >>
  /\ agent = << >>

WalkFrame ==
  /\ UNCHANGED <<schema, enumMapping, strictSchema, original, output,
                 restored, value, sanitized>>
  /\ UNCHANGED <<cycles, maps, agent>>

\* const visited = new Set(); let sanitizedCount = 0; walk(boundModel)
StartWalk ==
  /\ pc = "bound"
  /\ runs' = [NoWalk EXCEPT !.node = schema]
  /\ pc' = "walk"
  /\ UNCHANGED heap
  /\ WalkFrame

\* One call of walk that passes the guard: the node joins visited, its
\* tools are sanitized, and the call goes on with walk(node.bound).  The
\* count of bodies run is capped above the length of any chain.
WalkNode ==
  /\ pc = "walk"
  /\ Unvisited(heap, runs.node, runs.visited)
  /\ Len(runs.visits) < MaxChain + 1
  /\ \E r \in {SanitizeToolArrays([h |-> heap, n |-> runs.sanitizedCount], arrays) :
                arrays \in {ToolArrays(heap, runs.node)}} :
       /\ heap' = r.h
       /\ runs' = [node |-> Get(r.h, runs.node, Lit.bound),
                   visited |-> runs.visited \cup {runs.node.v},
                   visits |-> Append(runs.visits, runs.node.v),
                   sanitizedCount |-> r.n]
  /\ pc' = "walk"
  /\ WalkFrame

\* A call of walk that returns at its guard: every call returns, and the
\* count is logged.
WalkReturn ==
  /\ pc = "walk"
  /\ ~Unvisited(heap, runs.node, runs.visited)
  /\ pc' = "done"
  /\ UNCHANGED <<heap, runs>>
  /\ WalkFrame

NextWalk == StartWalk \/ WalkNode \/ WalkReturn

SpecWalk == InitWalk /\ [][NextWalk]_vars

\* The call runs on one thread until it returns: a step that can be taken
\* is taken.
SpecWalkFair == SpecWalk /\ WF_vars(NextWalk)

(***************************************************************************)
(* runAgent: the invocations of the sequence SpecAgent builds.             *)
(***************************************************************************)
\* The body of the tools loop of normalizeInvocationToolSchemas:
\*   const fn = tool?.function; if (!fn || typeof fn !== 'object') continue;
\*   fn.strict = true;
\*   if (!parameters || typeof parameters !== 'object') continue;
\*   normalizeToolParametersSchema(parameters)
NormalizeTool(h, tool) ==
  The({ IF ~Truthy(fn) \/ ~IsObject(fn) THEN h
        ELSE The({ The({ IF Truthy(p) /\ IsObject(p)
                         THEN normalizeToolParametersSchema(h1, p)
                         ELSE h1 :
                           p \in {Get(h1, fn, Lit.parameters)} }) :
                     h1 \in {SetProp(h, fn.v, Lit.strict, Bool(TRUE))} }) :
          fn \in {OptGet(h, tool, Lit.function)} })

\* for (const tool of options.tools) ..., from index i on
RECURSIVE NormalizeTools(_, _, _)
NormalizeTools(h, tools, i) ==
  IF i > Len(h[tools.v].v) THEN h
  ELSE The({ NormalizeTools(h1, tools, i + 1) :
               h1 \in {NormalizeTool(h, h[tools.v].v[i])} })

\* if (!Array.isArray(options?.tools)) return; for (const tool of ...) ...
normalizeInvocationToolSchemas(h, options) ==
  The({ IF IsArray(h, tools) THEN NormalizeTools(h, tools, 1) ELSE h :
          tools \in {OptGet(h, options, Lit.tools)} })

\* The part of debugCallback.handleLLMStart that writes:
\*   const options = extraParams?.invocation_params || extraParams;
\*   if (options) normalizeInvocationToolSchemas(options)
LLMStart(h, extraParams) ==
  The({ The({ IF Truthy(options)
              THEN normalizeInvocationToolSchemas(h, options) ELSE h :
                options \in {IF Truthy(ip) THEN ip ELSE extraParams} }) :
          ip \in {OptGet(h, extraParams, Lit.invocation_params)} })

\* What a model bound to the schema answers: the sanitized form of one of
\* the enum strings, or some other string, as the property of an object.
Answers(h, sch) ==
  { TObj(<< <<PropA, Str(s)>> >>) :
      s \in {sanitizeEnumValue(x.v) : x \in AllEnumStrings(h, sch)} \cup {<<97>>} }

Logs(i, e, who, map) == Append(agent.items[i].log, Event(e, who, map))

\* runAgent for item i: await executor.withConfig({ callbacks:
\* [debugCallback, ...] }).invoke(...).  The first element of the sequence,
\* the agent of the primary model, is called; runAgent waits.
InvokeModel(i) ==
  /\ agent.pc = "built"
  /\ agent.items[i].pc = "idle"
  /\ agent' = [agent EXCEPT !.items[i].pc = "invoked",
                            !.items[i].who = "primary",
                            !.items[i].log = Logs(i, "invoke", "primary", NoMap)]
  /\ UNCHANGED <<heap, maps>>
  /\ AgentFrame

\* The model of item i's invocation starts its call: handleLLMStart
\* normalizes the tool schemas of the invocation parameters in place.
handleLLMStart(i) ==
  /\ agent.items[i].pc = "invoked"
  /\ \E h1 \in {LLMStart(heap, agent.extraParams)} :
       heap' = h1
  /\ agent' = [agent EXCEPT
                 !.items[i].pc = "started",
                 !.items[i].log = Logs(i, "start", agent.items[i].who, NoMap)]
  /\ UNCHANGED maps
  /\ AgentFrame

\* The model item i waits for answers: the first element of the sequence
\* resolves.
ModelResponds(i) ==
  /\ agent.items[i].pc = "started"
  /\ \E tr \in Answers(heap, agent.schema) :
       agent' = [agent EXCEPT
                   !.items[i].outTree = tr,
                   !.items[i].pc = "answered",
                   !.items[i].log = Logs(i, "response", agent.items[i].who, NoMap)]
  /\ UNCHANGED <<heap, maps>>
  /\ AgentFrame

\* The call item i waits for fails, before or after the model started.
\* agent.withFallbacks([fallbackAgent]) catches the failure of the primary
\* agent and calls the fallback agent; without a fallback, or when the
\* fallback fails, the invocation rejects.
InvokeFails(i) ==
  /\ agent.items[i].pc \in {"invoked", "started"}
  /\ agent' =
       IF agent.items[i].who = "primary" /\ agent.fallback
       THEN [agent EXCEPT
               !.items[i].pc = "invoked",
               !.items[i].who = "fallback",
               !.items[i].log = Logs(i, "fail", "primary", NoMap)
                                \o <<Event("invoke", "fallback", NoMap)>>]
       ELSE [agent EXCEPT
               !.items[i].pc = "failed",
               !.items[i].log = Logs(i, "fail", agent.items[i].who, NoMap)]
  /\ UNCHANGED <<heap, maps>>
  /\ AgentFrame

\* The steps parser on the final answer of item i: with an output parser in
\* jsonSchema mode it parses the answer and, given a mapping, restores it.
StepsParser(i) ==
  /\ agent.items[i].pc = "answered"
  /\ \E l \in {Load(heap, agent.items[i].outTree)} :
       IF agent.parser /\ agent.method = "jsonSchema"
          /\ agent.stepsMapping # NoMap
       THEN \E r \in {restoreEnumValues(l.h, l.ret, maps[agent.stepsMapping])} :
              /\ heap' = r.h
              /\ agent' = [agent EXCEPT
                             !.items[i].result = r.ret,
                             !.items[i].log = Logs(i, "restore", "parser",
                                                   agent.stepsMapping),
                             !.items[i].pc = "done"]
       ELSE /\ heap' = l.h
            /\ agent' = [agent EXCEPT !.items[i].result = l.ret,
                                      !.items[i].pc = "done"]
  /\ UNCHANGED maps
  /\ AgentFrame

NextAgent ==
  \/ BindPrimary
  \/ BindFallback
  \/ BuildSequence
  \/ \E i \in Items : InvokeModel(i)
  \/ \E i \in Items : handleLLMStart(i)
  \/ \E i \in Items : ModelResponds(i)
  \/ \E i \in Items : InvokeFails(i)
  \/ \E i \in Items : StepsParser(i)

SpecAgent == InitAgent /\ [][NextAgent]_vars

(***************************************************************************)
(* What the Strictifier visits.                                            *)
(***************************************************************************)
Range(q) == {q[i] : i \in 1..Len(q)}

NoControl(s) == \A i \in 1..Len(s) : s[i] \notin 0..31

\* The first of anyOf, allOf, oneOf that node x holds with a truthy value,
\* << >> when there is none.
FirstUnion(h, x) ==
  IF Truthy(Get(h, x, Lit.anyOf)) THEN Lit.anyOf
  ELSE IF Truthy(Get(h, x, Lit.allOf)) THEN Lit.allOf
  ELSE IF Truthy(Get(h, x, Lit.oneOf)) THEN Lit.oneOf
  ELSE << >>

\* The pairs <<x, y>> of an input node x and the output node y that stands
\* in its place, for the nodes the Strictifier visits: the root; the
\* property schemas of a visited object-like node; the items of a visited
\* array-like node that is not object-like; the members of the first of
\* anyOf, allOf, oneOf of a visited node that is neither.  The schema of a
\* property named __proto__ is visited but has no place in the output
\* (newProps['__proto__'] = ... creates no property): its y, and the y of
\* every node below it, is undefined.
RECURSIVE Visited(_, _, _)
Visited(h, x, y) ==
  {<<x, y>>} \cup
  ( IF ~IsObject(x) THEN {}
    ELSE IF IsObjectLike(h, x)
    THEN LET p == Get(h, x, Lit.properties)
             q == Get(h, y, Lit.properties)
         IN IF ~Truthy(p) THEN {}
            ELSE UNION {Visited(h, Get(h, p, k), Get(h, q, k)) :
                          k \in Range(Keys(h, p))}
    ELSE IF IsArrayLike(h, x)
    THEN IF ~Truthy(Get(h, x, Lit.items)) THEN {}
         ELSE Visited(h, Get(h, x, Lit.items), Get(h, y, Lit.items))
    ELSE LET u == FirstUnion(h, x)
         IN IF u = << >> THEN {}
            ELSE UNION {Visited(h, Elems(h, Get(h, x, u))[i], Get(h, Get(h, y, u), IndexKey(i - 1))) :
                          i \in 1..Len(Elems(h, Get(h, x, u)))} )

\* The visited pairs of the cycle whose input node is an object, and those
\* of them that have a place in the output.
VisitedNodes == {p \in Visited(heap, schema, strictSchema) : IsObject(p[1])}
PlacedNodes == {p \in VisitedNodes : p[2] # Undefined}

\* The enum the Strictifier works on at input node x: [const] when x has
\* a const, else the enum array of x; << >> when x has neither.
EffectiveEnum(h, x) ==
  IF HasKey(h, x, Lit.const) THEN <<Get(h, x, Lit.const)>>
  ELSE Elems(h, Get(h, x, Lit.enum))

HasEffectiveEnum(h, x) ==
  HasKey(h, x, Lit.const) \/ IsArray(h, Get(h, x, Lit.enum))

\* The strings the Strictifier sanitizes: the string members of the
\* effective enums of the visited nodes.
ProcessedStrings ==
  UNION {{m \in Range(EffectiveEnum(heap, p[1])) : IsString(m)} : p \in VisitedNodes}

\* The schema nodes under x: every object under x, except that a properties
\* map is not itself a node (its keys are property names, its values are
\* nodes).
RECURSIVE SchemaNodes(_, _)
SchemaNodes(h, x) ==
  IF x.t # "ref" THEN {}
  ELSE IF h[x.v].t = "arr"
  THEN UNION {SchemaNodes(h, h[x.v].v[i]) : i \in 1..Len(h[x.v].v)}
  ELSE {x} \cup UNION {
         LET e == h[x.v].v[i]
         IN IF e[1] = Lit.properties /\ e[2].t = "ref" /\ h[e[2].v].t = "obj"
            THEN UNION {SchemaNodes(h, h[e[2].v].v[j][2]) : j \in 1..Len(h[e[2].v].v)}
            ELSE SchemaNodes(h, e[2]) : i \in 1..Len(h[x.v].v)}

\* The strings the Strictifier sanitizes, in the order in which it does:
\* at a node, the string members of its effective enum in their order, then
\* the sub-schemas it visits, in property order or list order, each in full
\* before the next.
RECURSIVE VisitStrings(_, _)
RECURSIVE VisitStringsAll(_, _)
VisitStringsAll(h, xs) ==
  IF xs = << >> THEN << >>
  ELSE VisitStrings(h, Head(xs)) \o VisitStringsAll(h, Tail(xs))

VisitStrings(h, x) ==
  IF ~IsObject(x) THEN << >>
  ELSE SelectSeq(EffectiveEnum(h, x), IsString) \o
       ( IF IsObjectLike(h, x)
         THEN LET p == Get(h, x, Lit.properties)
              IN IF ~Truthy(p) THEN << >>
                 ELSE VisitStringsAll(h, [i \in 1..Len(Keys(h, p)) |-> Get(h, p, Keys(h, p)[i])])
         ELSE IF IsArrayLike(h, x)
         THEN IF ~Truthy(Get(h, x, Lit.items)) THEN << >>
              ELSE VisitStrings(h, Get(h, x, Lit.items))
         ELSE IF FirstUnion(h, x) = << >> THEN << >>
              ELSE VisitStringsAll(h, Elems(h, Get(h, x, FirstUnion(h, x)))) )

(***************************************************************************)
(* Claims                                                                  *)
(***************************************************************************)

\* C1 (as stated): after the schema is made strict with an initially empty
\* mapping, restoring the sanitized form of any string that occurs in the
\* schema as an enum member or const value gives that string back.
C1_RoundTripEveryString ==
  pc = "restored" => restored = Str(original)

\* C1 (amended): the round trip holds for every string that is a member of
\* the effective enum of a node the Strictifier visits, provided no other
\* such string has the same sanitized form.
C1_RoundTripProcessed ==
  ( /\ pc = "restored"
    /\ Str(original) \in ProcessedStrings
    /\ \A s \in ProcessedStrings :
         sanitizeEnumValue(s.v) = sanitizeEnumValue(original) => s.v = original )
  => restored = Str(original)

\* C1 witness: a string with a control character, among several recorded
\* ones, made the round trip from a nested node.
C1_Witness ==
  /\ pc = "restored"
  /\ ~NoControl(original)
  /\ Str(original) \in ProcessedStrings
  /\ \A s \in ProcessedStrings :
       sanitizeEnumValue(s.v) = sanitizeEnumValue(original) => s.v = original
  /\ Cardinality(DOMAIN enumMapping.v) >= 2
  /\ restored = Str(original)
  /\ output # restored

\* C2 (as stated): every object-shaped schema node of the result, at any
\* depth, has additionalProperties false and, when it has a properties
\* map, a required list of exactly the keys of that map.
C2_ClosureEverywhere ==
  pc = "strict" =>
    \A n \in SchemaNodes(heap, strictSchema) :
      IsObjectLike(heap, n) =>
        /\ Get(heap, n, Lit.additionalProperties) = Bool(FALSE)
        /\ IsObject(Get(heap, n, Lit.properties)) =>
             Tree(heap, Get(heap, n, Lit.required))
               = TArr([i \in 1..Len(Keys(heap, Get(heap, n, Lit.properties))) |->
                         Str(Keys(heap, Get(heap, n, Lit.properties))[i])])

NotProto(k) == k # Lit["__proto__"]

\* C2 (amended): every object-shaped node that the Strictifier visits and
\* places in the output has additionalProperties false in the result and, when its properties is
\* truthy, a required list of exactly the keys of the input properties in
\* their order; the output properties holds these keys in this order, but
\* for a property named __proto__, which required lists and the output
\* properties lacks.
C2_ClosureVisited ==
  pc = "strict" =>
    \A p \in PlacedNodes :
      IsObjectLike(heap, p[2]) =>
        /\ IsObject(p[2])
        /\ Get(heap, p[2], Lit.additionalProperties) = Bool(FALSE)
        /\ Truthy(Get(heap, p[1], Lit.properties)) =>
             LET keys == Keys(heap, Get(heap, p[1], Lit.properties))
             IN /\ Tree(heap, Get(heap, p[2], Lit.required))
                     = TArr([i \in 1..Len(keys) |-> Str(keys[i])])
                /\ Keys(heap, Get(heap, p[2], Lit.properties))
                     = SelectSeq(keys, NotProto)

\* C2 witness: a visited node whose input allowed additional properties
\* and had a required list other than its keys, with a visited
\* object-shaped node with properties below it, both closed in the result.
C2_Witness ==
  /\ pc = "strict"
  /\ \E p \in PlacedNodes :
       /\ Truthy(Get(heap, p[1], Lit.properties))
       /\ Get(heap, p[1], Lit.additionalProperties) = Bool(TRUE)
       /\ Tree(heap, Get(heap, p[1], Lit.required))
            # Tree(heap, Get(heap, p[2], Lit.required))
       /\ Get(heap, p[2], Lit.additionalProperties) = Bool(FALSE)
  /\ \E q \in PlacedNodes :
       /\ q[1] # schema
       /\ Truthy(Get(heap, q[1], Lit.properties))
       /\ Get(heap, q[2], Lit.additionalProperties) = Bool(FALSE)
       /\ IsArray(heap, Get(heap, q[2], Lit.required))

\* The 22 keywords as a set.
StrippedKeywords == {ListedKeywords[i] : i \in 1..Len(ListedKeywords)}

\* C3 (as stated): none of the 22 unsupported keywords is a key of any
\* schema node of the result, at any depth.
C3_StrippedEverywhere ==
  pc = "strict" =>
    \A n \in SchemaNodes(heap, strictSchema) :
      Range(Keys(heap, n)) \cap StrippedKeywords = {}

\* C3 (amended): none of the 22 unsupported keywords is a key of the
\* output node of any node the Strictifier visits and places in the output.
C3_StrippedVisited ==
  pc = "strict" =>
    \A p \in PlacedNodes :
      /\ IsObject(p[2])
      /\ Range(Keys(heap, p[2])) \cap StrippedKeywords = {}

\* C3 witness: a visited node below the root carried all 22 keywords and
\* its output node carries none.
C3_Witness ==
  /\ pc = "strict"
  /\ \E p \in PlacedNodes :
       /\ p[1] # schema
       /\ StrippedKeywords \subseteq Range(Keys(heap, p[1]))
       /\ Range(Keys(heap, p[2])) \cap StrippedKeywords = {}

\* C4: the result of sanitizeEnumValue holds no character in 0x00-0x1F.
C4_NoControlCharacter ==
  pc = "sanitized" => NoControl(sanitized)

\* C4 witness: a string with a control character other than \n, \r, \t
\* was sanitized.
C4_Witness ==
  /\ pc = "sanitized"
  /\ \E i \in 1..Len(value) : value[i] \in (0..31) \ {9, 10, 13}
  /\ NoControl(sanitized)

\* C5: sanitizing a sanitized string gives the same string.
C5_Idempotent ==
  pc = "sanitized" => sanitizeEnumValue(sanitized) = sanitized

\* C5 witness: a string that sanitization changed, holding a backslash.
C5_Witness ==
  /\ pc = "sanitized"
  /\ sanitized # value
  /\ \E i \in 1..Len(value) : value[i] = 92
  /\ sanitizeEnumValue(sanitized) = sanitized

\* C6: sanitizeEnumValue keeps the length; position by position, a
\* character in 0x00-0x1F becomes one space and any other is kept.
C6_PositionWise ==
  pc = "sanitized" =>
    /\ Len(sanitized) = Len(value)
    /\ \A i \in 1..Len(value) :
         sanitized[i] = IF value[i] \in 0..31 THEN 32 ELSE value[i]

\* C6 witness: "\r\n" followed by a surrogate became two spaces followed
\* by the surrogate.
C6_Witness ==
  /\ pc = "sanitized"
  /\ value = <<13, 10, 55357>>
  /\ sanitized = <<32, 32, 55357>>

\* C7: every mapping entry has a key free of control characters and a
\* value that is, as it stands, an enum member or const value of the
\* input schema.
C7_MappingInvariant ==
  pc = "strict" =>
    \A k \in DOMAIN enumMapping.v :
      /\ NoControl(k)
      /\ Str(enumMapping.v[k]) \in AllEnumStrings(heap, schema)

\* C7 witness: a mapping of two entries or more.
C7_Witness ==
  /\ pc = "strict"
  /\ Cardinality(DOMAIN enumMapping.v) >= 2

\* C8: makeSchemaStrict leaves every object and array of the input as it
\* was, and an input that is an object is returned as another, new object.
C8_InputNotMutated ==
  [][ (pc = "start" /\ pc' # "start") =>
        /\ SubSeq(heap', 1, Len(heap)) = heap
        /\ (pc' = "strict" /\ IsObject(schema)) =>
             (strictSchema' # schema /\ strictSchema'.v > Len(heap)) ]_vars

\* C8 witness: a schema was made strict whose nodes, three or more of them
\* visited, held unsupported keywords and strings to sanitize.
C8_Witness ==
  /\ pc = "strict"
  /\ Cardinality(VisitedNodes) >= 3
  /\ DOMAIN enumMapping.v # {}
  /\ \E p \in VisitedNodes : Range(Keys(heap, p[1])) \cap StrippedKeywords # {}

\* C9 (as stated): on a node the Strictifier visits, a number, boolean or
\* null that is an enum member stands unchanged at the same position of
\* the output enum, and so does one that is the const value, at the first;
\* the mapping has no entry but for strings.
C9_NonStringEveryMember ==
  pc = "strict" =>
    \A p \in PlacedNodes :
      LET in  == Elems(heap, Get(heap, p[1], Lit.enum))
          c   == Get(heap, p[1], Lit.const)
          out == Elems(heap, Get(heap, p[2], Lit.enum))
      IN /\ \A i \in 1..Len(in) :
              ~IsString(in[i]) => (i <= Len(out) /\ out[i] = in[i])
         /\ (HasKey(heap, p[1], Lit.const) /\ ~IsString(c)) =>
              (Len(out) >= 1 /\ out[1] = c)

\* The sanitized forms of the processed strings that sanitization changes.
ChangedKeys ==
  {sanitizeEnumValue(s.v) : s \in {t \in ProcessedStrings : sanitizeEnumValue(t.v) # t.v}}

\* C9 (amended): on a node the Strictifier visits, the output enum has the
\* length of the effective enum (the const value alone when the node has a
\* const, which replaces its enum; else its enum), every member of it that
\* is not a string stands unchanged at the same position, and the keys of
\* the mapping are sanitized forms of changed strings only.
C9_NonStringEffective ==
  pc = "strict" =>
    /\ \A p \in PlacedNodes :
         HasEffectiveEnum(heap, p[1]) =>
           LET in  == EffectiveEnum(heap, p[1])
               out == Elems(heap, Get(heap, p[2], Lit.enum))
           IN /\ IsArray(heap, Get(heap, p[2], Lit.enum))
              /\ Len(out) = Len(in)
              /\ \A i \in 1..Len(in) : ~IsString(in[i]) => out[i] = in[i]
    /\ DOMAIN enumMapping.v = ChangedKeys

\* C9 witness: a visited node whose enum holds a non-string member and a
\* string that sanitization changes.
C9_Witness ==
  /\ pc = "strict"
  /\ \E p \in VisitedNodes :
       LET in == EffectiveEnum(heap, p[1])
       IN /\ \E i \in 1..Len(in) : ~IsString(in[i])
          /\ \E i \in 1..Len(in) : IsString(in[i]) /\ ~NoControl(in[i].v)
  /\ DOMAIN enumMapping.v # {}

\* Whether r is v with every leaf string that is a key of m replaced by
\* m's value for it, and nothing else changed.
RECURSIVE Faithful(_, _, _, _)
Faithful(h, v, r, m) ==
  IF IsString(v)
  THEN r = (IF MapHas(m, v.v) THEN Str(m.v[v.v]) ELSE v)
  ELSE IF IsArray(h, v)
  THEN /\ IsArray(h, r)
       /\ Len(h[r.v].v) = Len(h[v.v].v)
       /\ \A i \in 1..Len(h[v.v].v) : Faithful(h, h[v.v].v[i], h[r.v].v[i], m)
  ELSE IF IsObject(v)
  THEN /\ IsObject(r) /\ ~IsArray(h, r)
       /\ Keys(h, r) = Keys(h, v)
       /\ \A i \in 1..Len(h[v.v].v) : Faithful(h, h[v.v].v[i][2], Get(h, r, h[v.v].v[i][1]), m)
  ELSE r = v

\* C10: restoreEnumValues keeps the shape of the value (the keys of every
\* object, the length and order of every array), keeps numbers, booleans
\* and null, and changes a leaf string only when it is a key of the
\* mapping, to the mapping's value for it.
C10_RestoreFidelity ==
  pc = "restored" => Faithful(heap, output, restored, enumMapping)

\* C11: restoreEnumValues leaves every object and array of its input, and
\* the mapping, as they were; a string that is no key of the mapping is
\* returned as it is, at the top as well as in an array; every object and
\* array of the result is one the call has built.
C11_RestoreFrame ==
  [][ (pc = "responded" /\ pc' = "restored") =>
        /\ SubSeq(heap', 1, Len(heap)) = heap
        /\ enumMapping' = enumMapping
        /\ \A r \in Reach(heap', restored') : r.v > Len(heap)
        /\ (IsString(output) /\ ~MapHas(enumMapping, output.v)) =>
             restored' = output
        /\ IsArray(heap, output) =>
             /\ IsArray(heap', restored')
             /\ Len(Elems(heap', restored')) = Len(Elems(heap, output))
             /\ \A i \in 1..Len(Elems(heap, output)) :
                  LET x == Elems(heap, output)[i]
                  IN (IsString(x) /\ ~MapHas(enumMapping, x.v)) =>
                       Elems(heap', restored')[i] = x ]_vars

\* C11 witness: an object holding an array was restored under a mapping
\* with entries, to a new object with a new array, and a string changed.
C11_Witness ==
  /\ pc = "restored"
  /\ IsObject(output) /\ ~IsArray(heap, output)
  /\ DOMAIN enumMapping.v # {}
  /\ \E k \in Range(Keys(heap, output)) :
       /\ IsArray(heap, Get(heap, output, k))
       /\ IsArray(heap, Get(heap, restored, k))
       /\ Get(heap, restored, k) # Get(heap, output, k)
  /\ restored.v > output.v
  /\ Tree(heap, restored) # Tree(heap, output)

\* C12: a visited node with a const has, in the output, no const and an
\* enum of one element: the sanitized const value when it is a string, the
\* const value itself otherwise, whatever enum the node had; a const string
\* that sanitization changes has its sanitized form as a key of the mapping.
C12_ConstRewritten ==
  pc = "strict" =>
    /\ \A p \in PlacedNodes :
         HasKey(heap, p[1], Lit.const) =>
           LET c == Get(heap, p[1], Lit.const)
           IN /\ ~HasKey(heap, p[2], Lit.const)
              /\ IsArray(heap, Get(heap, p[2], Lit.enum))
              /\ Elems(heap, Get(heap, p[2], Lit.enum))
                   = << IF IsString(c) THEN Str(sanitizeEnumValue(c.v)) ELSE c >>
    /\ \A p \in VisitedNodes :
         LET c == Get(heap, p[1], Lit.const)
         IN (HasKey(heap, p[1], Lit.const) /\ IsString(c)
               /\ sanitizeEnumValue(c.v) # c.v) =>
              MapHas(enumMapping, sanitizeEnumValue(c.v))

\* C12 witness: a node below the root with an enum and a const string that
\* holds a control character, rewritten to the one sanitized member.
C12_Witness ==
  /\ pc = "strict"
  /\ \E p \in PlacedNodes :
       LET c == Get(heap, p[1], Lit.const)
       IN /\ p[1] # schema
          /\ HasKey(heap, p[1], Lit.const)
          /\ IsArray(heap, Get(heap, p[1], Lit.enum))
          /\ IsString(c) /\ ~NoControl(c.v)
          /\ Elems(heap, Get(heap, p[2], Lit.enum)) = <<Str(sanitizeEnumValue(c.v))>>
          /\ MapGet(enumMapping, sanitizeEnumValue(c.v)) = c

\* C13, the part on the Strictifier (specification Spec): every entry of
\* the mapping has a value that differs from its key; a string member
\* without control character stands unchanged in the output enum; a schema
\* whose enum and const strings hold no control character leaves the
\* mapping empty.
C13_OnlyChangedRecorded ==
  pc = "strict" =>
    /\ \A k \in DOMAIN enumMapping.v : enumMapping.v[k] # k
    /\ \A p \in PlacedNodes :
         HasEffectiveEnum(heap, p[1]) =>
           \A i \in 1..Len(EffectiveEnum(heap, p[1])) :
             LET x == EffectiveEnum(heap, p[1])[i]
             IN (IsString(x) /\ NoControl(x.v)) =>
                  Elems(heap, Get(heap, p[2], Lit.enum))[i] = x
    /\ (\A s \in AllEnumStrings(heap, schema) : NoControl(s.v)) =>
         DOMAIN enumMapping.v = {}

\* C13, the part on the Restorer (specification SpecRestore): with an
\* empty mapping, restoreEnumValues returns a value equal to its argument.
C13_EmptyMappingIdentity ==
  (pc = "restored" /\ DOMAIN enumMapping.v = {}) =>
    Tree(heap, restored) = Tree(heap, output)

\* C14: makeSchemaStrict returns for every input value; it never throws.
C14_NeverThrows ==
  pc # "threw"

\* C15: makeSchemaStrict run on its own output returns, adds no entry to
\* the mapping, and returns a schema equal to the one it was given.
C15_StrictifierIdempotent ==
  pc = "again" =>
    /\ runs.again.ok
    /\ runs.again.m = enumMapping
    /\ Tree(heap, runs.again.ret) = Tree(heap, strictSchema)

\* C16: makeSchemaStrict without a mapping returns a schema equal to the
\* one it returns with a mapping, whatever the mapping held, and the string
\* members of the enums of the visited nodes hold no control character.
C16_MappingNotObserved ==
  pc \in {"bare", "again"} =>
    /\ runs.bare.ok
    /\ Tree(heap, runs.bare.ret) = Tree(heap, strictSchema)
    /\ \A p \in Visited(heap, schema, runs.bare.ret) :
         \A i \in 1..Len(Elems(heap, Get(heap, p[2], Lit.enum))) :
           LET x == Elems(heap, Get(heap, p[2], Lit.enum))[i]
           IN IsString(x) => NoControl(x.v)

\* C16 witness: the call with a mapping recorded entries, in a mapping that
\* held one already, and the call without one returned another object with
\* the same content, sanitized below the root.
C16_Witness ==
  /\ pc = "bare"
  /\ runs.given # NewMap
  /\ Cardinality(DOMAIN enumMapping.v) > Cardinality(DOMAIN runs.given.v)
  /\ runs.bare.ret # strictSchema
  /\ Tree(heap, runs.bare.ret) = Tree(heap, strictSchema)
  /\ \E p \in Visited(heap, schema, runs.bare.ret) :
       /\ p[1] # schema
       /\ \E i \in 1..Len(Elems(heap, Get(heap, p[1], Lit.enum))) :
            LET x == Elems(heap, Get(heap, p[1], Lit.enum))[i]
            IN /\ IsString(x) /\ ~NoControl(x.v)
               /\ Elems(heap, Get(heap, p[2], Lit.enum))[i] = Str(sanitizeEnumValue(x.v))

\* C17 (as stated): when two distinct strings among those the Strictifier
\* visits sanitize to one key, the mapping has an entry for that key and its
\* value is the one of them visited last.
C17_LastVisitedWins ==
  pc = "strict" =>
    \A k \in {sanitizeEnumValue(s.v) : s \in Range(VisitStrings(heap, schema))} :
      LET Hits(s) == sanitizeEnumValue(s.v) = k
          hits    == SelectSeq(VisitStrings(heap, schema), Hits)
      IN (\E i, j \in 1..Len(hits) : hits[i] # hits[j]) =>
           /\ k \in DOMAIN enumMapping.v
           /\ enumMapping.v[k] = hits[Len(hits)].v

\* C17 (amended): the keys of the mapping are the sanitized forms of the
\* visited strings that sanitization changes, and the value of each key is
\* the last of the visited strings, in the order of the visit, that
\* sanitization changes to this key; a visited string that is its own
\* sanitized form writes nothing, also when it is visited last.
C17_LastWriterWins ==
  pc = "strict" =>
    /\ \A s \in Range(VisitStrings(heap, schema)) :
         sanitizeEnumValue(s.v) # s.v =>
           sanitizeEnumValue(s.v) \in DOMAIN enumMapping.v
    /\ \A k \in DOMAIN enumMapping.v :
         LET Hits(s) == sanitizeEnumValue(s.v) = k /\ s.v # k
             hits    == SelectSeq(VisitStrings(heap, schema), Hits)
         IN /\ hits # << >>
            /\ enumMapping.v[k] = hits[Len(hits)].v

\* C17 witness: two different strings of two different nodes were changed
\* to one key, and the mapping holds the later one.
C17_Witness ==
  /\ pc = "strict"
  /\ \E k \in DOMAIN enumMapping.v :
       \E p, q \in VisitedNodes :
         /\ p[1] # q[1]
         /\ \E s \in Range(EffectiveEnum(heap, p[1])), t \in Range(EffectiveEnum(heap, q[1])) :
              /\ IsString(s) /\ IsString(t) /\ s # t
              /\ s.v # k /\ t.v # k
              /\ sanitizeEnumValue(s.v) = k /\ sanitizeEnumValue(t.v) = k
              /\ enumMapping.v[k] = t.v
              /\ Len(VisitStrings(heap, schema)) >= 3

\* C18: in every interleaving of two cycles that have a Map each, each
\* cycle's strictified schema, mapping and restored answer are those of the
\* cycle run alone, and no cycle's schema or parsed answer is changed.
C18_CyclesIsolated ==
  pc = "cycles" =>
    \A i \in Cycles :
      LET c == cycles[i]
          a == Alone(c.tree, c.outTree)
      IN /\ Tree(heap, c.schema) = c.tree
         /\ c.pc \in {"strict", "responded", "restored"} =>
              /\ Tree(heap, c.strictSchema) = a.strictSchema
              /\ maps[MapFor(i)] = a.m
         /\ c.pc \in {"responded", "restored"} =>
              Tree(heap, c.output) = c.outTree
         /\ c.pc = "restored" =>
              Tree(heap, c.restored) = a.restored

\* C18 witness: both cycles are through, the second strictified between
\* the first one's strictify and restore, and their mappings give the same
\* key different originals.
C18_Witness ==
  /\ pc = "cycles"
  /\ \A i \in Cycles : cycles[i].pc = "restored"
  /\ cycles[1].restored.t = "ref"
  /\ cycles[1].strictSchema.v < cycles[2].strictSchema.v
  /\ cycles[2].strictSchema.v < cycles[1].restored.v
  /\ \E k \in DOMAIN maps[1].v \cap DOMAIN maps[2].v : maps[1].v[k] # maps[2].v[k]
  /\ Tree(heap, cycles[1].restored) # cycles[1].outTree

\* The positions of log q with an event e.
LogAt(q, e) == {n \in 1..Len(q) : q[n].e = e}

\* C19: with an output parser in jsonSchema mode the primary binding
\* strictifies the schema, producing a mapping, before the sequence is
\* invoked for any item; an item's answer is restored only after a model
\* responded to that item, with the mapping of the primary binding, which
\* is the one the steps parser was given.  In any other configuration
\* nothing is strictified, no mapping exists, the steps parser is given
\* none and nothing is restored.
C19_CycleOrdering ==
  pc = "agent" =>
    LET js == agent.parser /\ agent.method = "jsonSchema"
    IN /\ \A i \in Items :
            agent.items[i].pc # "idle" <=> LogAt(agent.items[i].log, "invoke") # {}
       /\ js =>
            /\ \A i \in Items :
                 LogAt(agent.items[i].log, "invoke") # {} =>
                   /\ agent.pc = "built"
                   /\ \E j \in LogAt(agent.log, "strictify") :
                        /\ agent.log[j].who = "primary"
                        /\ agent.log[j].map = agent.primaryBound.enumMapping
                        /\ agent.log[j].map \in DOMAIN maps
            /\ \A i \in Items :
                 \A n \in LogAt(agent.items[i].log, "restore") :
                   /\ \E j \in LogAt(agent.items[i].log, "response") : j < n
                   /\ agent.items[i].log[n].map = agent.primaryBound.enumMapping
            /\ agent.pc = "built" =>
                 /\ agent.stepsMapping = agent.primaryBound.enumMapping
                 /\ agent.stepsMapping # NoMap
            /\ \A i \in Items :
                 agent.items[i].pc = "done" =>
                   LogAt(agent.items[i].log, "restore") # {}
       /\ ~js =>
            /\ maps = << >>
            /\ agent.stepsMapping = NoMap
            /\ agent.primaryBound.enumMapping = NoMap
            /\ LogAt(agent.log, "strictify") = {}
            /\ \A i \in Items : LogAt(agent.items[i].log, "restore") = {}

\* C19 witness: in jsonSchema mode with a fallback model, the primary
\* model failed on item 1 after item 2 was invoked, the fallback answered
\* item 1, and the answer was restored, and changed, with the primary's
\* mapping while item 2 was still in flight.
C19_Witness ==
  /\ pc = "agent"
  /\ agent.fallback
  /\ agent.items[1].pc = "done"
  /\ agent.items[2].pc = "started"
  /\ LogAt(agent.items[1].log, "fail") # {}
  /\ \E n \in LogAt(agent.items[1].log, "response") :
       agent.items[1].log[n].who = "fallback"
  /\ Len(maps) > 1
  /\ \E n \in LogAt(agent.items[1].log, "restore") :
       agent.items[1].log[n].map = agent.primaryBound.enumMapping
  /\ Tree(heap, agent.items[1].result) # agent.items[1].outTree

\* C19 witness of the other configurations: the sequence ran to its end
\* for both items with an output parser in toolCalling mode.
C19_WitnessNoMapping ==
  /\ pc = "agent"
  /\ \A i \in Items : agent.items[i].pc = "done"
  /\ agent.parser
  /\ agent.method = "toolCalling"

UnionKeys == {Lit.anyOf, Lit.oneOf, Lit.allOf}

\* The strictified form of schema x, as a document.
StrictForm(h, x) ==
  LET r == makeSchemaStrict(h, x, NoMapping) IN Tree(r.h, r.ret)

\* The list under key of output node y holds, member for member and in the
\* same order, the strictified forms of the list under key of input node x.
MembersStrictified(h, x, y, key) ==
  LET xs == Elems(h, Get(h, x, key))
      ys == Elems(h, Get(h, y, key))
  IN /\ IsArray(h, Get(h, y, key))
     /\ Len(ys) = Len(xs)
     /\ \A i \in 1..Len(xs) : Tree(h, ys[i]) = StrictForm(h, xs[i])

\* The visited nodes, with their outputs, that are neither object-like nor
\* array-like.
UnionShaped ==
  {p \in PlacedNodes : /\ IsObject(p[1])
                       /\ ~IsObjectLike(heap, p[1])
                       /\ ~IsArrayLike(heap, p[1])}

\* C20 as stated: on a node that is neither object-like nor array-like,
\* every anyOf, oneOf and allOf list present has its members replaced by
\* their strictified forms, in the same number and order.
C20_EveryUnionList ==
  pc = "strict" =>
    \A p \in UnionShaped : \A key \in UnionKeys :
      IsArray(heap, Get(heap, p[1], key)) =>
        MembersStrictified(heap, p[1], p[2], key)

\* C20 as amended: on such a node only the first of anyOf, allOf, oneOf
\* that is present with a truthy value has its members replaced by their
\* strictified forms, in the same number and order; the other two stay the
\* values they were.
C20_FirstUnionList ==
  pc = "strict" =>
    \A p \in UnionShaped : \A key \in UnionKeys :
      IF key = FirstUnion(heap, p[1])
      THEN MembersStrictified(heap, p[1], p[2], key)
      ELSE /\ HasKey(heap, p[2], key) = HasKey(heap, p[1], key)
           /\ Get(heap, p[2], key) = Get(heap, p[1], key)

\* C20 witness: a node with an anyOf list of two members, both changed by
\* the Strictifier and in their places in the output, and an allOf list
\* whose member the Strictifier would change but that is left as it was.
C20_Witness ==
  /\ pc = "strict"
  /\ \E p \in UnionShaped :
       LET xs == Elems(heap, Get(heap, p[1], Lit.anyOf))
           zs == Elems(heap, Get(heap, p[1], Lit.allOf))
       IN /\ Len(xs) = 2
          /\ StrictForm(heap, xs[1]) # StrictForm(heap, xs[2])
          /\ \A i \in 1..2 : StrictForm(heap, xs[i]) # Tree(heap, xs[i])
          /\ MembersStrictified(heap, p[1], p[2], Lit.anyOf)
          /\ Len(zs) = 1
          /\ StrictForm(heap, zs[1]) # Tree(heap, zs[1])
          /\ Get(heap, p[2], Lit.allOf) = Get(heap, p[1], Lit.allOf)

\* Output node y holds under key k what input node x holds: the same
\* value, for an object or array the very same one.
SameUnder(h, x, y, k) ==
  /\ HasKey(h, y, k) = HasKey(h, x, k)
  /\ Get(h, y, k) = Get(h, x, k)

\* C21: on a visited object-like node, items and the anyOf, oneOf and allOf
\* lists are in the output what they were in the input; on a visited
\* array-like node that is not object-like, the three lists are.
C21_BranchExclusive ==
  pc = "strict" =>
    \A p \in PlacedNodes :
      /\ IsObjectLike(heap, p[1]) =>
           \A k \in UnionKeys \cup {Lit.items} : SameUnder(heap, p[1], p[2], k)
      /\ (~IsObjectLike(heap, p[1]) /\ IsArrayLike(heap, p[1])) =>
           \A k \in UnionKeys : SameUnder(heap, p[1], p[2], k)

\* C21 witness: an object-like node with a union list, and an array-like
\* node with a union list, each list with a member the Strictifier would
\* change, both lists in the output as they were.
C21_Witness ==
  /\ pc = "strict"
  /\ \E p \in PlacedNodes, q \in PlacedNodes :
       /\ IsObjectLike(heap, p[1])
       /\ ~IsObjectLike(heap, q[1]) /\ IsArrayLike(heap, q[1])
       /\ \A n \in {p, q} : \E k \in UnionKeys :
            LET xs == Elems(heap, Get(heap, n[1], k))
            IN /\ xs # << >>
               /\ StrictForm(heap, xs[1]) # Tree(heap, xs[1])
               /\ SameUnder(heap, n[1], n[2], k)

\* C22: on every visited object-like node whose properties is an object,
\* the output required lists the property keys of the input in their
\* order, whatever required the input had, and the output properties has
\* these keys in this order, each with the strictified property schema.
C22_ForcedRequired ==
  pc = "strict" =>
    \A p \in PlacedNodes :
      LET props == Get(heap, p[1], Lit.properties)
          ks    == Keys(heap, props)
          out   == Get(heap, p[2], Lit.properties)
      IN (IsObject(props) /\ ~IsArray(heap, props)) =>
           /\ Tree(heap, Get(heap, p[2], Lit.required))
                = TArr([i \in 1..Len(ks) |-> Str(ks[i])])
           /\ Keys(heap, out) = ks
           /\ \A i \in 1..Len(ks) :
                Tree(heap, Get(heap, out, ks[i]))
                  = StrictForm(heap, Get(heap, props, ks[i]))

\* The shape of input node x, as the chain of makeSchemaStrict sees it.
ShapeOf(h, x) ==
  IF IsObjectLike(h, x) THEN "object"
  ELSE IF IsArrayLike(h, x) THEN "array"
  ELSE IF FirstUnion(h, x) # << >> THEN "union"
  ELSE "none"

\* Sanitization, member by member: a string gives its sanitized form, any
\* other value itself.
SanitizedMembers(xs) ==
  [i \in 1..Len(xs) |->
     IF IsString(xs[i]) THEN Str(sanitizeEnumValue(xs[i].v)) ELSE xs[i]]

\* C23: whatever its shape, a visited node with a const or an enum array
\* has in the output no const and the enum of the sanitized const, or of
\* the sanitized members of its enum, and every string of these that
\* sanitization changes has its sanitized form as a key of the mapping.
C23_EnumWhateverShape ==
  pc = "strict" =>
    /\ \A p \in PlacedNodes :
         HasEffectiveEnum(heap, p[1]) =>
           /\ ~HasKey(heap, p[2], Lit.const)
           /\ IsArray(heap, Get(heap, p[2], Lit.enum))
           /\ Elems(heap, Get(heap, p[2], Lit.enum))
                = SanitizedMembers(EffectiveEnum(heap, p[1]))
    /\ \A p \in VisitedNodes :
         \A s \in Range(EffectiveEnum(heap, p[1])) :
           (IsString(s) /\ sanitizeEnumValue(s.v) # s.v) =>
              MapHas(enumMapping, sanitizeEnumValue(s.v))

\* C23 witness: in one schema, a node of each of the four shapes has a
\* const or an enum with a string that sanitization changed.
C23_Witness ==
  /\ pc = "strict"
  /\ \A shape \in {"object", "array", "union", "none"} :
       \E p \in PlacedNodes :
         /\ ShapeOf(heap, p[1]) = shape
         /\ HasEffectiveEnum(heap, p[1])
         /\ Elems(heap, Get(heap, p[2], Lit.enum)) # EffectiveEnum(heap, p[1])
         /\ Elems(heap, Get(heap, p[2], Lit.enum))
              = SanitizedMembers(EffectiveEnum(heap, p[1]))

\* The bindings createAgentSequence has made so far.
Bindings ==
  (IF agent.pc # "create" THEN {agent.primaryBound} ELSE {})
  \cup (IF agent.fallback /\ agent.pc \notin {"create", "fallback"}
        THEN {agent.fallbackBound} ELSE {})

\* C24: every binding has the tools; it forces the tool
\* format_final_json_response exactly with an output parser outside
\* jsonSchema mode; it has a response_format, and a mapping, exactly with
\* an output parser in jsonSchema mode; so never both, and neither without
\* an output parser.
C24_OneMechanism ==
  pc = "agent" =>
    \A b \in Bindings :
      /\ b.tools
      /\ (b.toolChoice = "format_final_json_response")
           <=> (agent.parser /\ agent.method # "jsonSchema")
      /\ b.toolChoice \in {"", "format_final_json_response"}
      /\ (b.format # Undefined) <=> (agent.parser /\ agent.method = "jsonSchema")
      /\ (b.enumMapping # NoMap) <=> (agent.parser /\ agent.method = "jsonSchema")
      /\ ~(b.toolChoice # "" /\ b.format # Undefined)
      /\ ~agent.parser => (b.toolChoice = "" /\ b.format = Undefined)

\* C24 witness: the primary and the fallback model are bound, with an
\* output parser in jsonSchema mode: both have the tools and a
\* response_format and no forced tool.
C24_Witness ==
  /\ pc = "agent"
  /\ agent.parser
  /\ agent.method = "jsonSchema"
  /\ agent.primaryBound # agent.fallbackBound
  /\ \A b \in {agent.primaryBound, agent.fallbackBound} :
       b.tools /\ b.format # Undefined /\ b.toolChoice = ""

\* C24 witness of the other mechanism: bound with an output parser and the
\* option not set, the tool is forced and there is no response_format.
C24_WitnessToolChoice ==
  /\ pc = "agent"
  /\ agent.parser
  /\ agent.method = "undefined"
  /\ agent.primaryBound.toolChoice = "format_final_json_response"
  /\ agent.primaryBound.format = Undefined

\* C25: for every raw string, the escapes of approach C turned back give
\* the raw string again.
C25_EscapeRoundTrip ==
  pc = "unescaped" => restored = Str(value)

\* A backslash of s is followed by n, r or t.
BackslashBeforeNRT(s) ==
  \E i \in 1..(Len(s) - 1) : s[i] = 92 /\ s[i + 1] \in {110, 114, 116}

\* The round trip of approach C on the raw strings in which no backslash
\* is followed by n, r or t.
C25_RoundTripElsewhere ==
  (pc = "unescaped" /\ ~BackslashBeforeNRT(value)) => restored = Str(value)

\* C26: in the mapping a run of makeSchemaStrict fills, starting from an
\* empty Map, every entry has a key that is the sanitized form of its
\* value and differs from it; so every value holds a code unit in
\* 0x00-0x1F, and no value is a key.  It holds of a run that throws, too.
C26_EntriesAreChanges ==
  pc \in {"strict", "threw", "responded", "restored"} =>
    \A k \in DOMAIN enumMapping.v :
      LET orig == enumMapping.v[k]
      IN /\ sanitizeEnumValue(orig) = k
         /\ orig # k
         /\ \E i \in 1..Len(orig) : orig[i] \in 0..31
         /\ orig \notin DOMAIN enumMapping.v

\* C26 witness: a mapping with an entry, next to an enum string without
\* control character, which has no entry.
C26_Witness ==
  /\ pc = "strict"
  /\ DOMAIN enumMapping.v # {}
  /\ \E s \in ProcessedStrings :
       /\ sanitizeEnumValue(s.v) = s.v
       /\ s.v \notin DOMAIN enumMapping.v

\* C27: with the mapping a run of makeSchemaStrict filled, restoring the
\* restored value gives the restored value again.
C27_RestoreIdempotent ==
  pc = "again" => Tree(heap, runs.again) = Tree(heap, restored)

\* C27 witness: the first restoration changed a string inside an object
\* or array, the second one found nothing to change.
C27_Witness ==
  /\ pc = "again"
  /\ restored.t = "ref"
  /\ Tree(heap, restored) # Tree(heap, output)
  /\ Tree(heap, runs.again) = Tree(heap, restored)
  /\ runs.again # restored

\* C28: a run of makeSchemaStrict removes no entry of the mapping it is
\* given, also when it throws, and an entry whose key is not the sanitized
\* form of a changed string of the schema keeps its value.
C28_OnlyAddsOrOverwrites ==
  (pc # "start" /\ runs # << >>) =>
    /\ DOMAIN runs.given.v \subseteq DOMAIN enumMapping.v
    /\ pc # "threw" =>
         \A k \in DOMAIN runs.given.v :
           k \notin ChangedKeys => enumMapping.v[k] = runs.given.v[k]

\* C28 witness: of the two entries given, the run overwrote one and kept
\* the other, and it added a third.
C28_Witness ==
  /\ pc = "strict"
  /\ runs # << >>
  /\ \E j, k \in DOMAIN runs.given.v :
       /\ enumMapping.v[j] # runs.given.v[j]
       /\ enumMapping.v[k] = runs.given.v[k]
  /\ DOMAIN enumMapping.v # DOMAIN runs.given.v

\* The schemas under x along the keywords of the in-place sanitizers:
\* the values of a properties object, an items that is one schema, the
\* members of anyOf, oneOf and allOf arrays; x included.
RECURSIVE SchemasUnder(_, _)
SchemasUnder(h, x) ==
  IF ~IsObject(x) THEN {}
  ELSE IF h[x.v].t # "obj" THEN {x}
  ELSE
    LET p     == Get(h, x, Lit.properties)
        items == Get(h, x, Lit.items)
        lists == {l \in {Get(h, x, k) : k \in {Lit.anyOf, Lit.oneOf, Lit.allOf}} :
                    IsArray(h, l)}
        kids  == (IF IsObject(p) /\ ~IsArray(h, p)
                  THEN {Entries(h, p)[i][2] : i \in 1..Len(Entries(h, p))}
                  ELSE {})
                 \cup (IF IsObject(items) /\ ~IsArray(h, items) THEN {items}
                       ELSE {})
                 \cup UNION {Range(h[l.v].v) : l \in lists}
    IN {x} \cup UNION {SchemasUnder(h, k) : k \in kids}

\* schema.type === 'object' || schema.properties
ObjectShaped(h, x) ==
  Get(h, x, Lit.type) = Str(Lit.object) \/ Truthy(Get(h, x, Lit.properties))

\* additionalProperties false, required the keys of the properties object,
\* no $schema.
ClosedInPlace(h, x) ==
  /\ Get(h, x, Lit.additionalProperties) = Bool(FALSE)
  /\ IsObject(Get(h, x, Lit.properties)) =>
       /\ IsArray(h, Get(h, x, Lit.required))
       /\ h[Get(h, x, Lit.required).v].v =
            [i \in 1..Len(Keys(h, Get(h, x, Lit.properties))) |->
               Str(Keys(h, Get(h, x, Lit.properties))[i])]
  /\ ~HasKey(h, x, Lit["$schema"])

\* C29: the in-place sanitizer applies its steps independently: after
\* sanitizeJsonSchemaStrict has run on a schema, every object-shaped node
\* under the root along properties values, a single-schema items and the
\* members of anyOf, oneOf and allOf has additionalProperties false, required
\* equal to the keys of its properties object, and no $schema; and
\* normalizeToolParametersSchema leaves a copy of the schema in the same
\* form.
C29_InPlaceClosure ==
  /\ pc \in {"sanitized", "normalized"} =>
       \A n \in SchemasUnder(heap, schema) :
         ObjectShaped(heap, n) => ClosedInPlace(heap, n)
  /\ pc = "normalized" =>
       Tree(heap, schema) = Tree(heap, runs.parameters)

\* A sanitized schema whose root is object-like with properties and had a
\* $schema, and under whose items an object-like node carries items and
\* union lists that hold object-like nodes; the copy is normalized too.
C29_Witness ==
  /\ pc = "normalized"
  /\ \E n \in SchemasUnder(heap, schema) :
       /\ ObjectShaped(heap, n)
       /\ IsObject(Get(heap, n, Lit.properties))
       /\ IsObject(Get(heap, n, Lit.items))
       /\ ObjectShaped(heap, Get(heap, n, Lit.items))
       /\ \A k \in {Lit.anyOf, Lit.oneOf, Lit.allOf} :
            /\ IsArray(heap, Get(heap, n, k))
            /\ \E m \in Range(heap[Get(heap, n, k).v].v) :
                 IsObject(m) /\ ObjectShaped(heap, m)

\* Every tool with an object function entry in config.tools or
\* kwargs.tools of the model x is marked strict.
ToolsStrict(h, x) ==
  \A i \in 1..Len(ToolArrays(h, x)) :
    \A tool \in Range(h[ToolArrays(h, x)[i].v].v) :
      IsObject(OptGet(h, tool, Lit.function)) =>
        Get(h, OptGet(h, tool, Lit.function), Lit.strict) = Bool(TRUE)

\* C30: sanitizeBoundToolsForStrictMode terminates on every chain of bound
\* models, also when the bound references form a cycle; the body of walk
\* runs at most once on a model; and when the walk has finished, every tool
\* with an object function entry in config.tools or kwargs.tools of a
\* model on the chain has function.strict true.
C30_WalkTerminates ==
  /\ <>(pc = "done")
  /\ [](\A i, j \in 1..Len(runs.visits) :
          runs.visits[i] = runs.visits[j] => i = j)
  /\ [](pc = "done" =>
          \A x \in Range(ChainFrom(heap, schema, << >>)) : ToolsStrict(heap, x))

\* A finished walk over a chain of three models whose innermost bound is
\* the middle model: the walk stopped at a model it had visited, and it
\* marked tools of the outermost and of the innermost model.
C30_Witness ==
  /\ pc = "done"
  /\ Len(runs.visits) = 3
  /\ IsObject(runs.node)
  /\ runs.node.v = runs.visits[2]
  /\ runs.sanitizedCount > 0
  /\ \E i \in {1, 3} :
       \E a \in Range(ToolArrays(heap, Ref(runs.visits[i]))) :
         \E tool \in Range(heap[a.v].v) :
           IsObject(OptGet(heap, tool, Lit.function))

====
